---- MODULE Spec2Model ----
(***************************************************************************)
(* State-machine model of the fraud-catcher Python package: the            *)
(* FraudDetector orchestrator (fraud_detector.py), its rule registry and   *)
(* the signals it fans a transaction out to (algorithms/*.py).             *)
(*                                                                         *)
(* Conventions                                                             *)
(*   - time is in whole seconds; `clock` is the wall clock read by         *)
(*     datetime.now() / time.time();                                       *)
(*   - a score is an integer number of 1/SCALE units (SCALE = 1.0);        *)
(*   - a rule weight is an integer number of hundredths (15 = 0.15);       *)
(*   - an absent optional attribute (Python None) is the string "none".    *)
(***************************************************************************)
EXTENDS Integers, Sequences, FiniteSets, TLC

VARIABLES
    clock,                \* wall clock, seconds
    config,               \* FraudDetector.config (rules, global_threshold)
    rules,                \* FraudDetector.rules, in dict insertion order
    transaction_history,  \* VelocityAlgorithm.transaction_history
    user_locations,       \* LocationAlgorithm.user_locations
    feature_history,      \* MLAlgorithm.feature_history
    device_fingerprints,  \* DeviceAlgorithm.device_fingerprints
    user_devices,         \* DeviceAlgorithm.user_devices
    ip_profiles,          \* NetworkAlgorithm.ip_profiles
    user_ips,             \* NetworkAlgorithm.user_ips
    suspicious_ips,       \* NetworkAlgorithm.suspicious_ips
    trusted_ips,          \* NetworkAlgorithm.trusted_ips
    merchant_profiles,    \* MerchantAlgorithm.merchant_profiles
    user_merchants,       \* MerchantAlgorithm.user_merchants
    category_stats,       \* MerchantAlgorithm.category_stats
    user_time_patterns,   \* TimeAlgorithm.user_time_patterns
    user_profiles,        \* BehavioralAlgorithm.user_profiles
    behavior_history,     \* BehavioralAlgorithm.transaction_history
    calls,                \* number of analyze calls made so far
    ticks,                \* number of clock advances so far
    muts,                 \* number of registry mutations so far
    tasks,                \* the analyze coroutines on the event loop
    running,              \* the coroutine the event loop is running, if any
    last                  \* what the most recent operation was and returned

vars == <<clock, config, rules, transaction_history, user_locations,
          feature_history, device_fingerprints, user_devices, ip_profiles,
          user_ips, suspicious_ips, trusted_ips, merchant_profiles,
          user_merchants, category_stats, user_time_patterns, user_profiles,
          behavior_history, calls, ticks, muts, tasks, running, last>>

\* the stores of each signal
velocityVars == <<transaction_history>>

locationVars == <<user_locations>>

mlVars == <<feature_history>>

deviceVars == <<device_fingerprints, user_devices>>

networkVars == <<ip_profiles, user_ips, suspicious_ips, trusted_ips>>

merchantVars == <<merchant_profiles, user_merchants, category_stats>>

timeVars == <<user_time_patterns>>

behavioralVars == <<user_profiles, behavior_history>>

registryVars == <<config, rules>>

taskVars == <<tasks, running>>

----------------------------------------------------------------------------
(* Bounds of the model *)

\* operations on one detector in a run: analyze calls, configuration updates
\* and clock advances together
MaxSteps == 3

TickStep == 1800

----------------------------------------------------------------------------
(* Units *)

SCALE == 10000

NONE == "none"

\* the event loop runs no coroutine
IDLE == {}

Min(a, b) == IF a <= b THEN a ELSE b

Max(a, b) == IF a >= b THEN a ELSE b

RECURSIVE SumAmount(_)
SumAmount(s) == IF s = << >> THEN 0 ELSE Head(s).amount + SumAmount(Tail(s))

----------------------------------------------------------------------------
(* Inputs *)

Users == {"u1", "u2"}

----------------------------------------------------------------------------
(* Velocity signal: algorithms/velocity.py, configured in fraud_detector.py *)

time_window == 60

max_transactions == 10

max_amount == 5000

\* list comprehension of VelocityAlgorithm.analyze: the events counted
recent_transactions(user_history, now) ==
    SelectSeq(user_history,
              LAMBDA e : (now - e.timestamp) * 1000 <= time_window * 60 * 1000)

\* the score arithmetic of VelocityAlgorithm.analyze
velocity_score(transaction, user_history) ==
    LET recent == recent_transactions(user_history, transaction.timestamp)
        transaction_count == Len(recent) + 1
        total_amount == SumAmount(recent) + transaction.amount
        count_risk == Min((transaction_count * SCALE) \div max_transactions, SCALE)
        amount_risk == Min((total_amount * SCALE) \div max_amount, SCALE)
    IN [count |-> transaction_count,
        total |-> total_amount,
        score |-> Min((count_risk + amount_risk) \div 2, SCALE)]

\* _add_transaction with the two steps swapped: prune, then append
add_transaction_prune_first(history, transaction, clk) ==
    LET cutoff_time == clk - time_window * 60
        kept == SelectSeq(history[transaction.user_id],
                          LAMBDA e : e.timestamp > cutoff_time)
    IN [history EXCEPT ![transaction.user_id] =
            Append(kept, [id |-> transaction.id,
                          amount |-> transaction.amount,
                          timestamp |-> transaction.timestamp])]

\* VelocityAlgorithm._add_transaction: append, then prune against time.time()
add_transaction(history, transaction, clk) ==
    LET appended == Append(history[transaction.user_id],
                           [id |-> transaction.id,
                            amount |-> transaction.amount,
                            timestamp |-> transaction.timestamp])
        cutoff_time == clk - time_window * 60
    IN [history EXCEPT ![transaction.user_id] =
            SelectSeq(appended, LAMBDA e : e.timestamp > cutoff_time)]

\* VelocityAlgorithm.analyze
VelocityAnalyze(transaction, clk, history) ==
    LET v == velocity_score(transaction, history[transaction.user_id])
    IN [ok |-> TRUE, score |-> v.score, count |-> v.count, total |-> v.total,
        store |-> add_transaction(history, transaction, clk)]

\* VelocityAlgorithm.get_transaction_count
get_transaction_count(history, user_id, minutes, clk) ==
    LET cutoff_time == clk - minutes * 60
    IN Len(SelectSeq(history[user_id], LAMBDA e : e.timestamp > cutoff_time))

\* VelocityAlgorithm.get_total_amount
get_total_amount(history, user_id, minutes, clk) ==
    LET cutoff_time == clk - minutes * 60
    IN SumAmount(SelectSeq(history[user_id], LAMBDA e : e.timestamp > cutoff_time))

\* FraudDetector.get_velocity_stats
get_velocity_stats(history, user_id, minutes, clk) ==
    [count |-> get_transaction_count(history, user_id, minutes, clk),
     total_amount |-> get_total_amount(history, user_id, minutes, clk)]

----------------------------------------------------------------------------
(* Amount signal: algorithms/amount.py *)

suspicious_threshold == 1000

high_risk_threshold == 5000

\* currency_multipliers, in thousandths; 1.0 for an unlisted currency
currency_multiplier(currency) ==
    CASE currency = "USD" -> 1000
      [] currency = "EUR" -> 1100
      [] currency = "GBP" -> 1300
      [] currency = "JPY" -> 7
      [] OTHER -> 1000

\* AmountAlgorithm.analyze with the interpolation between the two thresholds
\* missing its 0.5 offset
AmountAnalyzeNoOffset(transaction) ==
    LET currency == IF transaction.currency = NONE THEN "USD" ELSE transaction.currency
        normalized_amount == transaction.amount * currency_multiplier(currency)
        range_val == high_risk_threshold - suspicious_threshold
        position == normalized_amount - suspicious_threshold * 1000
    IN [ok |-> TRUE,
        score |-> IF normalized_amount >= high_risk_threshold * 1000
                      THEN SCALE
                  ELSE IF normalized_amount >= suspicious_threshold * 1000
                      THEN (position * (SCALE \div 1000)) \div (2 * range_val)
                  ELSE (normalized_amount * (SCALE \div 1000)) \div (2 * suspicious_threshold)]

\* AmountAlgorithm.analyze; normalized amount in thousandths
AmountAnalyze(transaction) ==
    LET currency == IF transaction.currency = NONE THEN "USD" ELSE transaction.currency
        normalized_amount == transaction.amount * currency_multiplier(currency)
        range_val == high_risk_threshold - suspicious_threshold
        position == normalized_amount - suspicious_threshold * 1000
    IN [ok |-> TRUE,
        score |-> IF normalized_amount >= high_risk_threshold * 1000
                      THEN SCALE
                  ELSE IF normalized_amount >= suspicious_threshold * 1000
                      THEN SCALE \div 2 + (position * (SCALE \div 1000)) \div (2 * range_val)
                  ELSE (normalized_amount * (SCALE \div 1000)) \div (2 * suspicious_threshold)]

----------------------------------------------------------------------------
(* Location signal: algorithms/location.py *)

max_distance_km == 1000

suspicious_distance_km == 100

time_window_minutes == 60

enable_geo_fencing == FALSE

trusted_locations == {}

\* LocationAlgorithm._calculate_distance (haversine, R = 6371 km) evaluated
\* on the named places: New York (40.7128, -74.0060), London (51.5074, -0.1278)
calculate_distance(loc1, loc2) == IF loc1 = loc2 THEN 0 ELSE 5570

\* LocationAlgorithm._get_recent_locations
get_recent_locations(locations, user_id, current_time) ==
    SelectSeq(locations[user_id].locs,
              LAMBDA loc : current_time - loc.timestamp <= time_window_minutes * 60)

\* the distance bands of LocationAlgorithm.analyze
location_risk(current_location, recent) ==
    IF recent = << >> THEN 0
    ELSE LET dists == {calculate_distance(current_location, recent[i].place) :
                          i \in 1..Len(recent)}
             min_distance == CHOOSE d \in dists : \A e \in dists : d <= e
             range_val == max_distance_km - suspicious_distance_km
             position == min_distance - suspicious_distance_km
         IN IF min_distance > max_distance_km THEN SCALE
            ELSE IF min_distance > suspicious_distance_km
                THEN SCALE \div 2 + (position * SCALE) \div (2 * range_val)
            ELSE (min_distance * SCALE) \div (2 * suspicious_distance_km)

\* the geo-fencing cap of LocationAlgorithm.analyze
geo_fence(risk_score, current_location) ==
    IF enable_geo_fencing /\ trusted_locations # {}
       /\ \E t \in trusted_locations : calculate_distance(current_location, t) <= 1
    THEN Min(risk_score, 2000)
    ELSE risk_score

\* LocationAlgorithm._add_location: the user's list is created, then building
\* the Location with a timestamp keyword raises TypeError (models.Location has
\* no such field), so nothing is ever appended and the call fails.
add_location(locations, user_id) ==
    [locations EXCEPT ![user_id].present = TRUE]

\* LocationAlgorithm.analyze
\* LocationAlgorithm.analyze with the user's list created before the
\* presence check
LocationAnalyzeStoresFirst(transaction, locations) ==
    IF transaction.location = NONE
    THEN [ok |-> TRUE, score |-> 0,
          store |-> add_location(locations, transaction.user_id)]
    ELSE [ok |-> FALSE, score |-> 0,
          store |-> add_location(locations, transaction.user_id)]

LocationAnalyze(transaction, locations) ==
    IF transaction.location = NONE
    THEN [ok |-> TRUE, score |-> 0, store |-> locations]
    ELSE LET recent == get_recent_locations(locations, transaction.user_id,
                                            transaction.timestamp)
             risk_score == geo_fence(location_risk(transaction.location, recent),
                                     transaction.location)
         IN [ok |-> FALSE, score |-> Min(risk_score, SCALE),
             store |-> add_location(locations, transaction.user_id)]

----------------------------------------------------------------------------
(* Model-based signal: algorithms/ml.py *)

enable_training == TRUE

\* MLAlgorithm.analyze: _extract_features evaluates float(...).__log__(),
\* which raises AttributeError before any feature is stored.
MLAnalyze(transaction, history) ==
    IF ~enable_training
    THEN [ok |-> TRUE, score |-> 0, store |-> history]
    ELSE [ok |-> FALSE, score |-> 0, store |-> history]

----------------------------------------------------------------------------
(* Elapsed time between two clock readings.  Two readings that fall in the  *)
(* same second differ by a fraction of a second that may be exactly zero:   *)
(* `same_instant` is that outcome of the clock (chosen by the environment). *)

\* count / (time_diff / 60) > limit, for time_diff > 0 seconds;
\* limit_milli is the limit in thousandths per minute
per_minute_exceeds(count, time_diff, limit_milli) ==
    IF time_diff = 0
    THEN count >= 1          \* a positive fraction of a second has elapsed
    ELSE count * 60 * 1000 > limit_milli * time_diff

----------------------------------------------------------------------------
(* Device signal: algorithms/device.py *)

suspicious_device_threshold == 5

device_velocity_window == 60

max_devices_per_user == 5

DeviceIds == {"d1", "d2"}

IpAddresses == {"10.0.0.1", "200.0.0.1"}

NoFingerprint ==
    [present |-> FALSE, user_agent |-> NONE, ip_address |-> NONE,
     screen_resolution |-> NONE, timezone |-> NONE,
     first_seen |-> 0, last_seen |-> 0,
     transaction_count |-> 0, total_amount |-> 0, is_trusted |-> FALSE]

\* DeviceAlgorithm._generate_device_id: a function of user agent and address
\* (and of the screen resolution in the metadata)
generate_device_id(transaction) ==
    LET ua == transaction.user_agent
        ip == transaction.ip_address
    IN CASE ua = "ua1" /\ ip = NONE -> "device_1"
         [] ua = "ua2" /\ ip = NONE -> "device_2"
         [] ua = NONE /\ ip = "10.0.0.1" -> "device_3"
         [] ua = NONE /\ ip = "200.0.0.1" -> "device_4"
         [] ua = "ua1" /\ ip = "10.0.0.1" -> "device_5"
         [] ua = "ua1" /\ ip = "200.0.0.1" -> "device_6"
         [] ua = "ua2" /\ ip = "10.0.0.1" -> "device_7"
         [] OTHER -> "device_8"

GeneratedDeviceIds ==
    {"device_1", "device_2", "device_3", "device_4",
     "device_5", "device_6", "device_7", "device_8"}

AllDeviceIds == DeviceIds \cup GeneratedDeviceIds

\* DeviceAlgorithm._create_fingerprint
create_fingerprint(transaction, clk) ==
    [present |-> TRUE,
     user_agent |-> transaction.user_agent,
     ip_address |-> transaction.ip_address,
     screen_resolution |-> transaction.screen_resolution,
     timezone |-> transaction.timezone,
     first_seen |-> clk, last_seen |-> clk,
     transaction_count |-> 1, total_amount |-> transaction.amount,
     is_trusted |-> FALSE]

\* DeviceAlgorithm._calculate_device_risk
calculate_device_risk(existing, current) ==
    Min((IF existing.user_agent # current.user_agent THEN 3000 ELSE 0)
        + (IF existing.ip_address # current.ip_address THEN 2000 ELSE 0)
        + (IF existing.screen_resolution # current.screen_resolution THEN 1000 ELSE 0)
        + (IF existing.timezone # current.timezone THEN 1000 ELSE 0)
        + (IF current.last_seen - existing.last_seen < 60 THEN 2000 ELSE 0),
        8000)

\* DeviceAlgorithm._get_device_users
get_device_users(devices, device_id) ==
    {u \in Users : device_id \in devices[u]}

\* DeviceAlgorithm._calculate_device_sharing_risk
calculate_device_sharing_risk(devices, device_id) ==
    IF Cardinality(get_device_users(devices, device_id)) > 1 THEN 5000 ELSE 0

\* DeviceAlgorithm._update_device_fingerprint
update_device_fingerprint(fingerprint, transaction, clk) ==
    [fingerprint EXCEPT !.last_seen = clk,
                        !.transaction_count = @ + 1,
                        !.total_amount = @ + transaction.amount]

\* the index with the device added to the calling user on every call
register_device_always(devices, is_new, user_id, device_id) ==
    [devices EXCEPT ![user_id] = @ \cup {device_id}]

\* the user-to-devices index after the branch of DeviceAlgorithm.analyze on
\* the device being new: _add_user_device runs for a new device only
register_device(devices, is_new, user_id, device_id) ==
    IF is_new
    THEN [devices EXCEPT ![user_id] = @ \cup {device_id}]
    ELSE devices

\* DeviceAlgorithm.analyze.  The registry is written before the velocity is
\* computed, so a division by zero there leaves the write in place.
DeviceAnalyze(transaction, clk, same_instant, fingerprints, devices) ==
    IF transaction.device_id = NONE /\ transaction.user_agent = NONE
       /\ transaction.ip_address = NONE
    THEN [ok |-> TRUE, score |-> 0, fingerprints |-> fingerprints, devices |-> devices]
    ELSE
    LET device_id == IF transaction.device_id # NONE THEN transaction.device_id
                     ELSE generate_device_id(transaction)
        fingerprint == create_fingerprint(transaction, clk)
        existing == fingerprints[device_id]
        is_new == ~existing.present
        base_risk ==
            IF is_new
            THEN IF Cardinality(devices[transaction.user_id]) >= max_devices_per_user
                 THEN 6000 ELSE 3000
            ELSE calculate_device_risk(existing, fingerprint)
        fingerprints2 ==
            [fingerprints EXCEPT ![device_id] =
                IF is_new THEN fingerprint
                ELSE update_device_fingerprint(existing, transaction, clk)]
        devices2 == register_device(devices, is_new, transaction.user_id, device_id)
        \* _calculate_device_velocity
        stored == fingerprints2[device_id]
        time_diff == clk - stored.first_seen
        in_window == time_diff < device_velocity_window * 60
        divides_by_zero == in_window /\ time_diff = 0 /\ same_instant
        velocity_risk ==
            IF in_window /\ per_minute_exceeds(stored.transaction_count, time_diff,
                                               suspicious_device_threshold * 1000)
            THEN 4000 ELSE 0
        sharing_risk == calculate_device_sharing_risk(devices2, device_id)
    IN [ok |-> ~divides_by_zero,
        score |-> Min(base_risk + velocity_risk + sharing_risk, SCALE),
        fingerprints |-> fingerprints2, devices |-> devices2]

----------------------------------------------------------------------------
(* Network signal: algorithms/network.py *)

suspicious_countries == {"XX", "ZZ"}

trusted_countries == {"US", "CA", "GB", "DE", "FR"}

max_connections_per_ip == 10

ip_velocity_window == 60

NoIpProfile ==
    [present |-> FALSE, country |-> NONE, asn |-> NONE,
     is_proxy |-> FALSE, is_vpn |-> FALSE, is_tor |-> FALSE,
     is_suspicious |-> FALSE, user_count |-> 0, transaction_count |-> 0,
     total_amount |-> 0, first_seen |-> 0, last_seen |-> 0, unique_users |-> {}]

\* NetworkAlgorithm._get_country_from_ip: by the first octet
get_country_from_ip(ip_address) ==
    CASE ip_address = "10.0.0.1" -> "US"
      [] ip_address = "200.0.0.1" -> "GB"
      [] OTHER -> "Unknown"

\* Location.country of the named places (the test fixture's New York has none)
location_country(place) ==
    CASE place = "London" -> "GB"
      [] OTHER -> NONE

\* NetworkAlgorithm._get_or_create_ip_profile
get_or_create_ip_profile(profiles, ip_address, clk, suspicious) ==
    IF profiles[ip_address].present THEN profiles
    ELSE [profiles EXCEPT ![ip_address] =
            [NoIpProfile EXCEPT !.present = TRUE,
                                !.country = get_country_from_ip(ip_address),
                                !.asn = "Unknown",
                                !.is_suspicious = ip_address \in suspicious,
                                !.first_seen = clk,
                                !.last_seen = clk]]

\* NetworkAlgorithm._analyze_ip_reputation
analyze_ip_reputation(profile, ip_address, suspicious, trusted) ==
    Max(0, (IF ip_address \in suspicious THEN 8000 ELSE 0)
           - (IF ip_address \in trusted THEN 3000 ELSE 0)
           + (IF profile.country \in suspicious_countries THEN 4000 ELSE 0)
           - (IF profile.country \in trusted_countries THEN 2000 ELSE 0)
           + (IF profile.user_count > max_connections_per_ip THEN 3000 ELSE 0))

\* NetworkAlgorithm._analyze_geo_anomaly
analyze_geo_anomaly(transaction, profile) ==
    IF transaction.location = NONE THEN 0
    ELSE LET transaction_country == location_country(transaction.location)
         IN IF transaction_country # NONE /\ transaction_country # profile.country
            THEN 6000 ELSE 0

\* NetworkAlgorithm._analyze_ip_velocity, for a profile inside the window
analyze_ip_velocity(profile, time_diff) ==
    IF per_minute_exceeds(profile.transaction_count, time_diff, 10000) THEN 7000
    ELSE IF per_minute_exceeds(profile.transaction_count, time_diff, 5000) THEN 4000
    ELSE 0

\* NetworkAlgorithm._analyze_proxy_usage, _analyze_vpn_usage,
\* _analyze_tor_usage and _analyze_asn
analyze_anonymizers(profile) ==
    (IF profile.is_proxy THEN 5000 ELSE 0)
    + (IF profile.is_vpn THEN 3000 ELSE 0)
    + (IF profile.is_tor THEN 8000 ELSE 0)
    + (IF profile.asn \in {"AS12345", "AS67890"} THEN 4000 ELSE 0)

\* an update that counts the users before it adds the calling one
update_ip_profile_counts_first(profile, transaction, clk) ==
    [profile EXCEPT !.transaction_count = @ + 1,
                    !.total_amount = @ + transaction.amount,
                    !.last_seen = clk,
                    !.unique_users = @ \cup {transaction.user_id},
                    !.user_count = Cardinality(profile.unique_users)]

\* NetworkAlgorithm._update_ip_profile (the profile part)
update_ip_profile(profile, transaction, clk) ==
    [profile EXCEPT !.transaction_count = @ + 1,
                    !.total_amount = @ + transaction.amount,
                    !.last_seen = clk,
                    !.unique_users = @ \cup {transaction.user_id},
                    !.user_count = Cardinality(profile.unique_users
                                               \cup {transaction.user_id})]

\* NetworkAlgorithm.analyze.  The profile is created before the velocity is
\* computed and updated after it.
NetworkAnalyze(transaction, clk, same_instant, profiles, ips, suspicious, trusted) ==
    IF transaction.ip_address = NONE
    THEN [ok |-> TRUE, score |-> 0, profiles |-> profiles, ips |-> ips]
    ELSE
    LET ip_address == transaction.ip_address
        profiles2 == get_or_create_ip_profile(profiles, ip_address, clk, suspicious)
        ip_profile == profiles2[ip_address]
        time_diff == clk - ip_profile.first_seen
        in_window == time_diff < ip_velocity_window * 60
        divides_by_zero == in_window /\ time_diff = 0 /\ same_instant
        risk_score ==
            analyze_ip_reputation(ip_profile, ip_address, suspicious, trusted)
            + analyze_geo_anomaly(transaction, ip_profile)
            + (IF in_window THEN analyze_ip_velocity(ip_profile, time_diff) ELSE 0)
            + analyze_anonymizers(ip_profile)
    IN IF divides_by_zero
       THEN [ok |-> FALSE, score |-> 0, profiles |-> profiles2, ips |-> ips]
       ELSE [ok |-> TRUE, score |-> Min(risk_score, SCALE),
             profiles |-> [profiles2 EXCEPT ![ip_address] =
                              update_ip_profile(ip_profile, transaction, clk)],
             ips |-> [ips EXCEPT ![transaction.user_id] = @ \cup {ip_address}]]

----------------------------------------------------------------------------
(* Merchant signal: algorithms/merchant.py *)

high_risk_categories == {"gambling", "adult", "cash_advance", "cryptocurrency"}

suspicious_merchants == {}

trusted_merchants == {}

merchant_velocity_window == 60

max_transactions_per_merchant == 20

MerchantIds == {"m1", "trusted_merchant"}

Categories == {"gambling", "adult", "grocery", "unknown"}

\* MerchantConfig.category_risk_scores, 0.0 for an unlisted category
category_risk_scores(category) ==
    CASE category = "electronics" -> 3000
      [] category = "grocery" -> 1000
      [] category = "gas" -> 2000
      [] category = "restaurant" -> 2000
      [] category = "travel" -> 6000
      [] category = "gambling" -> 8000
      [] category = "adult" -> 9000
      [] category = "pharmacy" -> 4000
      [] category = "jewelry" -> 7000
      [] category = "cash_advance" -> 9000
      [] OTHER -> 0

\* the MerchantConfig that FraudDetector.__init__ builds
DetectorMerchantConfig ==
    [high_risk_categories |-> high_risk_categories,
     suspicious_merchants |-> suspicious_merchants,
     trusted_merchants |-> trusted_merchants,
     category_risk_scores |-> [c \in Categories |-> category_risk_scores(c)]]

\* the MerchantConfig of the fixture of tests/test_new_algorithms.py
FixtureMerchantConfig ==
    [high_risk_categories |-> {"gambling", "adult", "cash_advance"},
     suspicious_merchants |-> {"suspicious_merchant"},
     trusted_merchants |-> {"trusted_merchant"},
     category_risk_scores |->
        [c \in Categories |-> CASE c = "gambling" -> 8000
                                [] c = "electronics" -> 3000
                                [] c = "grocery" -> 1000
                                [] OTHER -> 0]]

NoMerchantProfile ==
    [present |-> FALSE, category |-> "unknown", transaction_count |-> 0,
     total_amount |-> 0, average_amount |-> 0, first_seen |-> 0, last_seen |-> 0,
     is_trusted |-> FALSE, is_suspicious |-> FALSE, user_count |-> 0,
     unique_users |-> {}]

NoCategoryStats == [present |-> FALSE, count |-> 0, total_amount |-> 0]

\* MerchantAlgorithm._get_or_create_merchant_profile
get_or_create_merchant_profile(cfg, profiles, merchant_id, category, clk) ==
    IF profiles[merchant_id].present THEN profiles
    ELSE [profiles EXCEPT ![merchant_id] =
            [NoMerchantProfile EXCEPT !.present = TRUE,
                                      !.category = category,
                                      !.first_seen = clk,
                                      !.last_seen = clk,
                                      !.is_trusted = merchant_id \in cfg.trusted_merchants,
                                      !.is_suspicious = merchant_id \in cfg.suspicious_merchants]]

\* _analyze_category_risk without the priority of the high-risk category list
analyze_category_risk_table_only(cfg, category, merchant_profile, stats) ==
    IF stats[category].present
       /\ merchant_profile.total_amount * Max(stats[category].count, 1)
            > 2 * stats[category].total_amount
                * Max(merchant_profile.transaction_count, 1)
    THEN 3000
    ELSE cfg.category_risk_scores[category]

\* MerchantAlgorithm._analyze_category_risk
analyze_category_risk(cfg, category, merchant_profile, stats) ==
    IF category \in cfg.high_risk_categories THEN 6000
    ELSE IF stats[category].present
            /\ merchant_profile.total_amount * Max(stats[category].count, 1)
                 > 2 * stats[category].total_amount
                     * Max(merchant_profile.transaction_count, 1)
         THEN 3000
    ELSE cfg.category_risk_scores[category]

\* MerchantAlgorithm._analyze_merchant_velocity, for a profile inside the window
analyze_merchant_velocity(profile, time_diff) ==
    IF per_minute_exceeds(profile.transaction_count, time_diff,
                          max_transactions_per_merchant * 1000) THEN 5000
    ELSE IF per_minute_exceeds(profile.transaction_count, time_diff,
                               max_transactions_per_merchant * 700) THEN 2000
    ELSE 0

\* MerchantAlgorithm._get_user_categories
get_user_categories(profiles, merchants, user_id) ==
    {profiles[m].category : m \in {x \in merchants[user_id] : profiles[x].present}}

\* MerchantAlgorithm._get_recent_user_merchants
get_recent_user_merchants(profiles, merchants, user_id, time_window_min, clk) ==
    {m \in merchants[user_id] :
        profiles[m].present /\ profiles[m].last_seen > clk - time_window_min * 60}

\* MerchantAlgorithm._analyze_merchant_patterns
analyze_merchant_patterns(profiles, merchants, user_id, merchant_id, category, clk) ==
    (IF merchant_id \notin merchants[user_id] THEN 2000 ELSE 0)
    + (IF get_user_categories(profiles, merchants, user_id) # {}
          /\ category \notin get_user_categories(profiles, merchants, user_id)
       THEN 1000 ELSE 0)
    + (IF Cardinality(get_recent_user_merchants(profiles, merchants, user_id,
                                                24 * 60, clk)) > 5
       THEN 3000 ELSE 0)

\* MerchantAlgorithm._analyze_merchant_reputation
analyze_merchant_reputation(profile) ==
    (IF profile.transaction_count < 5 THEN 2000 ELSE 0)
    + (IF profile.user_count < 3 THEN 1000 ELSE 0)
    + (IF profile.transaction_count > 10 /\ profile.average_amount > 0
       THEN 1000 ELSE 0)

\* MerchantAlgorithm._update_merchant_profile (the profile part); the
\* average is kept as a whole number, it is only ever compared with zero
update_merchant_profile(profile, transaction, clk) ==
    [profile EXCEPT !.transaction_count = @ + 1,
                    !.total_amount = @ + transaction.amount,
                    !.average_amount = (profile.total_amount + transaction.amount)
                                           \div (profile.transaction_count + 1),
                    !.last_seen = clk,
                    !.unique_users = @ \cup {transaction.user_id},
                    !.user_count = Cardinality(profile.unique_users
                                               \cup {transaction.user_id})]

\* MerchantAlgorithm.analyze without the floor at 0 of the returned score
MerchantAnalyzeNoFloor(cfg, transaction, clk, same_instant, profiles, merchants, stats) ==
    IF transaction.merchant_id = NONE
    THEN [ok |-> TRUE, score |-> 0, profiles |-> profiles,
          merchants |-> merchants, stats |-> stats]
    ELSE
    LET merchant_id == transaction.merchant_id
        category == IF transaction.merchant_category = NONE THEN "unknown"
                    ELSE transaction.merchant_category
        profiles2 == get_or_create_merchant_profile(cfg, profiles, merchant_id,
                                                   category, clk)
        merchant_profile == profiles2[merchant_id]
        time_diff == clk - merchant_profile.first_seen
        in_window == time_diff < merchant_velocity_window * 60
        divides_by_zero == in_window /\ time_diff = 0 /\ same_instant
        risk_score ==
            (IF merchant_id \in cfg.suspicious_merchants THEN 8000 ELSE 0)
            - (IF merchant_id \in cfg.trusted_merchants THEN 3000 ELSE 0)
            + analyze_category_risk(cfg, category, merchant_profile, stats)
            + (IF in_window THEN analyze_merchant_velocity(merchant_profile, time_diff)
               ELSE 0)
            + analyze_merchant_patterns(profiles2, merchants, transaction.user_id,
                                        merchant_id, category, clk)
            + analyze_merchant_reputation(merchant_profile)
    IN IF divides_by_zero
       THEN [ok |-> FALSE, score |-> 0, profiles |-> profiles2,
             merchants |-> merchants, stats |-> stats]
       ELSE [ok |-> TRUE, score |-> Min(risk_score, SCALE),
             profiles |-> [profiles2 EXCEPT ![merchant_id] =
                              update_merchant_profile(merchant_profile, transaction, clk)],
             merchants |-> [merchants EXCEPT ![transaction.user_id] =
                               @ \cup {merchant_id}],
             stats |-> [stats EXCEPT ![category] =
                           [present |-> TRUE, count |-> @.count + 1,
                            total_amount |-> @.total_amount + transaction.amount]]]

\* MerchantAlgorithm.analyze.  The profile is created before the velocity is
\* computed and updated after it.
MerchantAnalyze(cfg, transaction, clk, same_instant, profiles, merchants, stats) ==
    IF transaction.merchant_id = NONE
    THEN [ok |-> TRUE, score |-> 0, profiles |-> profiles,
          merchants |-> merchants, stats |-> stats]
    ELSE
    LET merchant_id == transaction.merchant_id
        category == IF transaction.merchant_category = NONE THEN "unknown"
                    ELSE transaction.merchant_category
        profiles2 == get_or_create_merchant_profile(cfg, profiles, merchant_id,
                                                   category, clk)
        merchant_profile == profiles2[merchant_id]
        time_diff == clk - merchant_profile.first_seen
        in_window == time_diff < merchant_velocity_window * 60
        divides_by_zero == in_window /\ time_diff = 0 /\ same_instant
        risk_score ==
            (IF merchant_id \in cfg.suspicious_merchants THEN 8000 ELSE 0)
            - (IF merchant_id \in cfg.trusted_merchants THEN 3000 ELSE 0)
            + analyze_category_risk(cfg, category, merchant_profile, stats)
            + (IF in_window THEN analyze_merchant_velocity(merchant_profile, time_diff)
               ELSE 0)
            + analyze_merchant_patterns(profiles2, merchants, transaction.user_id,
                                        merchant_id, category, clk)
            + analyze_merchant_reputation(merchant_profile)
    IN IF divides_by_zero
       THEN [ok |-> FALSE, score |-> 0, profiles |-> profiles2,
             merchants |-> merchants, stats |-> stats]
       ELSE [ok |-> TRUE, score |-> Max(0, Min(risk_score, SCALE)),
             profiles |-> [profiles2 EXCEPT ![merchant_id] =
                              update_merchant_profile(merchant_profile, transaction, clk)],
             merchants |-> [merchants EXCEPT ![transaction.user_id] =
                               @ \cup {merchant_id}],
             stats |-> [stats EXCEPT ![category] =
                           [present |-> TRUE, count |-> @.count + 1,
                            total_amount |-> @.total_amount + transaction.amount]]]

----------------------------------------------------------------------------
(* Calendar: what datetime.hour, datetime.weekday() and the date of a       *)
(* timestamp are.  Second 0 of the model is a Friday, 21:00, the day before *)
(* one of the built-in holidays.                                            *)

Epoch == [hour |-> 21, weekday |-> 5, holidays |-> {1}]

hour_of(timestamp) == (timestamp \div 3600 + Epoch.hour) % 24

day_of(timestamp) == (timestamp \div 3600 + Epoch.hour) \div 24

\* datetime.weekday() + 1: Monday = 1 .. Sunday = 7
day_of_week_of(timestamp) == ((Epoch.weekday - 1 + day_of(timestamp)) % 7) + 1

----------------------------------------------------------------------------
(* Time signal: algorithms/time.py *)

suspicious_hours == {0, 1, 2, 3, 4, 5, 22, 23}

timezone_threshold == 8

enable_holiday_detection == TRUE

max_time_patterns == 100

\* TimeAlgorithm._is_holiday
is_holiday(timestamp) ==
    enable_holiday_detection /\ day_of(timestamp) \in Epoch.holidays

\* TimeAlgorithm._get_country_timezone
get_country_timezone(country) ==
    CASE country = "US" -> "America/New_York"
      [] country = "GB" -> "Europe/London"
      [] country = "JP" -> "Asia/Tokyo"
      [] OTHER -> "UTC"

\* TimeAlgorithm._extract_timezone
extract_timezone(transaction) ==
    IF transaction.timezone # NONE THEN transaction.timezone
    ELSE IF transaction.location # NONE
            /\ location_country(transaction.location) # NONE
         THEN get_country_timezone(location_country(transaction.location))
    ELSE "UTC"

\* the timezone_offsets table of TimeAlgorithm._calculate_timezone_difference
timezone_offset(tz) ==
    CASE tz = "America/New_York" -> -5
      [] tz = "Asia/Tokyo" -> 9
      [] OTHER -> 0

\* TimeAlgorithm._calculate_timezone_difference
calculate_timezone_difference(tz1, tz2) ==
    LET d == timezone_offset(tz1) - timezone_offset(tz2)
    IN IF d < 0 THEN -d ELSE d

\* TimeAlgorithm._analyze_time_pattern
analyze_time_pattern(transaction) ==
    [hour |-> hour_of(transaction.timestamp),
     day_of_week |-> day_of_week_of(transaction.timestamp),
     is_weekend |-> day_of_week_of(transaction.timestamp) \in {6, 7},
     is_holiday |-> is_holiday(transaction.timestamp),
     timezone |-> extract_timezone(transaction)]

\* TimeAlgorithm._analyze_user_time_pattern
analyze_user_time_pattern(user_patterns, current_pattern) ==
    IF user_patterns = << >> THEN 1000
    ELSE LET similar_count ==
                 Len(SelectSeq(user_patterns,
                               LAMBDA q : q.hour = current_pattern.hour
                                          /\ q.day_of_week = current_pattern.day_of_week))
             total_patterns == Len(user_patterns)
         IN IF similar_count * 10 < total_patterns THEN 3000
            ELSE IF similar_count * 10 < 3 * total_patterns THEN 1000
            ELSE 0

\* TimeAlgorithm._analyze_timezone_anomaly
analyze_timezone_anomaly(transaction, time_pattern) ==
    IF transaction.location = NONE THEN 0
    ELSE IF location_country(transaction.location) = NONE THEN 0
    ELSE IF calculate_timezone_difference(
                get_country_timezone(location_country(transaction.location)),
                time_pattern.timezone) > timezone_threshold
         THEN 4000
    ELSE 0

\* a store that keeps the oldest hundred patterns
store_user_time_pattern_keeps_oldest(patterns, user_id, pattern) ==
    LET appended == Append(patterns[user_id], pattern)
    IN [patterns EXCEPT ![user_id] =
          IF Len(appended) > max_time_patterns
          THEN SubSeq(appended, 1, max_time_patterns)
          ELSE appended]

\* TimeAlgorithm._store_user_time_pattern: append, keep the last 100
store_user_time_pattern(patterns, user_id, pattern) ==
    LET appended == Append(patterns[user_id], pattern)
    IN [patterns EXCEPT ![user_id] =
          IF Len(appended) > max_time_patterns
          THEN SubSeq(appended, Len(appended) - max_time_patterns + 1, Len(appended))
          ELSE appended]

\* TimeAlgorithm.analyze
TimeAnalyze(transaction, patterns) ==
    LET time_pattern == analyze_time_pattern(transaction)
        risk_score ==
            (IF time_pattern.hour \in suspicious_hours THEN 4000 ELSE 0)
            + (IF time_pattern.is_weekend THEN 2400 ELSE 0)
            + (IF time_pattern.is_holiday THEN 4500 ELSE 0)
            + analyze_user_time_pattern(patterns[transaction.user_id], time_pattern)
            + analyze_timezone_anomaly(transaction, time_pattern)
    IN [ok |-> TRUE, score |-> Min(risk_score, SCALE),
        store |-> store_user_time_pattern(patterns, transaction.user_id, time_pattern)]

----------------------------------------------------------------------------
(* Behavioral signal: algorithms/behavioral.py *)

pattern_history_days == 30

max_common_locations == 10

\* UserBehaviorProfile as _create_initial_profile builds it.  The median and
\* the spending variance are written but never read and are left out.
NoProfile ==
    [present |-> FALSE, total_transactions |-> 0, total_amount |-> 0,
     preferred_hours |-> {}, preferred_days |-> {}, common_locations |-> << >>,
     common_merchants |-> {}, common_categories |-> {},
     transaction_frequency |-> 0, last_transaction |-> 0]

\* BehavioralAlgorithm._analyze_spending_patterns: deviation from the running
\* average total_amount / total_transactions, compared without dividing
analyze_spending_patterns(transaction, profile) ==
    IF profile.total_transactions > 0 /\ profile.total_amount > 0
    THEN LET n == profile.total_transactions
             d == transaction.amount * n - profile.total_amount
             deviation == IF d < 0 THEN -d ELSE d
         IN IF deviation > 2 * profile.total_amount
                THEN <<[severity |-> "high", score |-> 8000]>>
            ELSE IF deviation > profile.total_amount
                THEN <<[severity |-> "medium", score |-> 4000]>>
            ELSE << >>
    ELSE << >>

\* BehavioralAlgorithm._analyze_timing_patterns
analyze_timing_patterns(transaction, profile) ==
    (IF profile.preferred_hours # {}
        /\ hour_of(transaction.timestamp) \notin profile.preferred_hours
     THEN <<[severity |-> "medium", score |-> 3000]>> ELSE << >>)
    \o (IF profile.preferred_days # {}
           /\ day_of_week_of(transaction.timestamp) \notin profile.preferred_days
        THEN <<[severity |-> "low", score |-> 2000]>> ELSE << >>)

\* BehavioralAlgorithm._analyze_location_patterns
analyze_location_patterns(transaction, profile) ==
    IF profile.common_locations = << >> THEN << >>
    ELSE LET dists == {calculate_distance(transaction.location,
                                          profile.common_locations[i].place) :
                          i \in 1..Len(profile.common_locations)}
             min_distance == CHOOSE d \in dists : \A e \in dists : d <= e
         IN IF min_distance > 100 THEN <<[severity |-> "high", score |-> 7000]>>
            ELSE IF min_distance > 50 THEN <<[severity |-> "medium", score |-> 4000]>>
            ELSE << >>

severity_weight(severity) ==
    CASE severity = "high" -> 3
      [] severity = "medium" -> 2
      [] OTHER -> 1

RECURSIVE anomaly_total_score(_)
anomaly_total_score(anomalies) ==
    IF anomalies = << >> THEN 0
    ELSE Head(anomalies).score * severity_weight(Head(anomalies).severity)
         + anomaly_total_score(Tail(anomalies))

RECURSIVE anomaly_total_weight(_)
anomaly_total_weight(anomalies) ==
    IF anomalies = << >> THEN 0
    ELSE severity_weight(Head(anomalies).severity)
         + anomaly_total_weight(Tail(anomalies))

\* BehavioralAlgorithm._calculate_risk_score
calculate_risk_score(anomalies) ==
    IF anomalies = << >> THEN 0
    ELSE anomaly_total_score(anomalies) \div anomaly_total_weight(anomalies)

\* position a new element takes in a list sorted by decreasing count (stable)
RECURSIVE insert_by_count(_, _)
insert_by_count(locs, loc) ==
    IF locs = << >> THEN <<loc>>
    ELSE IF Head(locs).count >= loc.count
         THEN <<Head(locs)>> \o insert_by_count(Tail(locs), loc)
    ELSE <<loc>> \o locs

RECURSIVE sort_by_count(_)
sort_by_count(locs) ==
    IF locs = << >> THEN << >>
    ELSE LET n == Len(locs)
         IN insert_by_count(sort_by_count(SubSeq(locs, 1, n - 1)), locs[n])

\* BehavioralAlgorithm._update_common_locations: places closer than 0.01
\* degrees are one location
update_common_locations(locs, place) ==
    LET hits == {i \in 1..Len(locs) : locs[i].place = place}
        bumped ==
            IF hits # {}
            THEN LET i == CHOOSE j \in hits : \A k \in hits : j <= k
                 IN [locs EXCEPT ![i].count = @ + 1]
            ELSE Append(locs, [place |-> place, count |-> 1])
        sorted == sort_by_count(bumped)
    IN SubSeq(sorted, 1, Min(Len(sorted), max_common_locations))

\* BehavioralAlgorithm._update_user_profile, with _update_preferred_times,
\* _update_common_merchants, _update_common_categories and
\* _update_transaction_frequency
update_user_profile(profile, transaction, user_history, clk) ==
    [profile EXCEPT
        !.present = TRUE,
        !.total_transactions = @ + 1,
        !.total_amount = @ + transaction.amount,
        !.last_transaction = clk,
        !.preferred_hours = @ \cup {hour_of(transaction.timestamp)},
        !.preferred_days = @ \cup {day_of_week_of(transaction.timestamp)},
        !.common_locations =
            IF transaction.location # NONE
            THEN update_common_locations(@, transaction.location) ELSE @,
        !.common_merchants =
            IF transaction.merchant_id # NONE
            THEN @ \cup {transaction.merchant_id} ELSE @,
        !.common_categories =
            IF transaction.merchant_category # NONE
            THEN @ \cup {transaction.merchant_category} ELSE @,
        !.transaction_frequency =
            Len(SelectSeq(user_history,
                          LAMBDA e : e.timestamp > clk - 24 * 60 * 60))]

\* BehavioralAlgorithm._add_transaction_to_history
add_transaction_to_history(history, transaction, clk) ==
    LET appended == Append(history[transaction.user_id],
                           [id |-> transaction.id,
                            amount |-> transaction.amount,
                            timestamp |-> transaction.timestamp])
        cutoff_time == clk - pattern_history_days * 24 * 60 * 60
    IN [history EXCEPT ![transaction.user_id] =
            SelectSeq(appended, LAMBDA e : e.timestamp > cutoff_time)]

\* BehavioralAlgorithm.analyze
BehavioralAnalyze(transaction, clk, profiles, history) ==
    LET profile == profiles[transaction.user_id]
        anomalies ==
            analyze_spending_patterns(transaction, profile)
            \o analyze_timing_patterns(transaction, profile)
            \o (IF transaction.location # NONE
                THEN analyze_location_patterns(transaction, profile) ELSE << >>)
    IN [ok |-> TRUE, score |-> Min(calculate_risk_score(anomalies), SCALE),
        profiles |-> [profiles EXCEPT ![transaction.user_id] =
                        update_user_profile(profile, transaction,
                                            history[transaction.user_id], clk)],
        history |-> add_transaction_to_history(history, transaction, clk)]

----------------------------------------------------------------------------
(* Transactions *)

\* models.Transaction after __post_init__: the timestamp is always set.
\* The metadata mapping is absent, so the values read from it are None.
Transaction(id, user_id, amount, timestamp) ==
    [id |-> id, user_id |-> user_id, amount |-> amount, currency |-> "USD",
     timestamp |-> timestamp, location |-> NONE,
     merchant_id |-> NONE, merchant_category |-> NONE,
     device_id |-> NONE, ip_address |-> NONE, user_agent |-> NONE,
     screen_resolution |-> NONE, timezone |-> NONE]

Opt(S) == S \cup {NONE}

----------------------------------------------------------------------------
(* Rule registry: FraudDetector.rules, models.DetectionRule *)

AlgorithmNames ==
    {"velocity", "amount", "location", "device", "time", "merchant",
     "behavioral", "network", "ml"}

\* models.DetectionRule; is_number is false for a weight that arithmetic
\* rejects with TypeError (None, a string)
DetectionRule(name, weight, is_number, threshold, enabled) ==
    [name |-> name, weight |-> weight, is_number |-> is_number,
     threshold |-> threshold, enabled |-> enabled]

\* name, weight and default threshold of the rules _initialize_rules creates
DefaultRules ==
    << <<"velocity", 15, 8000>>, <<"amount", 15, 9000>>,
       <<"location", 15, 7000>>, <<"device", 15, 8000>>,
       <<"time", 10, 6000>>, <<"merchant", 15, 7000>>,
       <<"behavioral", 10, 6000>>, <<"network", 10, 8000>>,
       <<"ml", 20, 5000>> >>

InSeq(x, seq) == \E i \in 1..Len(seq) : seq[i] = x

HasRule(rs, name) == \E i \in 1..Len(rs) : rs[i].name = name

RuleIndex(rs, name) == CHOOSE i \in 1..Len(rs) : rs[i].name = name

\* self.rules[rule.name] = rule: an existing key keeps its place in the dict
set_rule(rs, rule) ==
    IF HasRule(rs, rule.name)
    THEN [rs EXCEPT ![RuleIndex(rs, rule.name)] = rule]
    ELSE Append(rs, rule)

RECURSIVE add_custom_rules(_, _)
add_custom_rules(rs, custom_rules) ==
    IF custom_rules = << >> THEN rs
    ELSE add_custom_rules(set_rule(rs, Head(custom_rules)), Tail(custom_rules))

\* FraudDetector._initialize_rules
initialize_rules(cfg) ==
    add_custom_rules(
        [i \in 1..Len(DefaultRules) |->
            DetectionRule(DefaultRules[i][1], DefaultRules[i][2], TRUE,
                          IF DefaultRules[i][1] \in DOMAIN cfg.thresholds
                          THEN cfg.thresholds[DefaultRules[i][1]]
                          ELSE DefaultRules[i][3],
                          InSeq(DefaultRules[i][1], cfg.rules))],
        cfg.custom_rules)

----------------------------------------------------------------------------
(* Orchestrator: FraudDetector.analyze *)

\* a ratio num/den with den > 0; scores are ratios of 1/SCALE units
Ratio(num, den) == [num |-> num, den |-> den]

RatioLeq(a, b) == a.num * b.den <= b.num * a.den

RatioEq(a, b) == a.num * b.den = b.num * a.den

EmptyAcc ==
    [triggered_rules |-> << >>, total_weighted_score |-> 0, total_weight |-> 0,
     raised |-> FALSE]

\* the loop body without its try/except: a failure of the signal escapes
process_rule_propagates(acc, rule, res) ==
    IF ~rule.enabled THEN acc
    ELSE IF rule.name \notin AlgorithmNames THEN acc
    ELSE IF ~res.ok \/ ~rule.is_number THEN [acc EXCEPT !.raised = TRUE]
    ELSE [acc EXCEPT !.triggered_rules =
                         IF res.score >= rule.threshold
                         THEN Append(@, rule.name) ELSE @,
                     !.total_weighted_score = @ + res.score * rule.weight,
                     !.total_weight = @ + rule.weight]

\* the loop body comparing the score with `>` instead of `>=`
process_rule_strict(acc, rule, res) ==
    IF ~rule.enabled THEN acc
    ELSE IF rule.name \notin AlgorithmNames THEN acc
    ELSE IF ~res.ok THEN acc
    ELSE LET triggered ==
                 IF res.score > rule.threshold
                 THEN Append(acc.triggered_rules, rule.name)
                 ELSE acc.triggered_rules
         IN IF ~rule.is_number
            THEN [acc EXCEPT !.triggered_rules = triggered]
            ELSE [acc EXCEPT !.triggered_rules = triggered,
                             !.total_weighted_score = @ + res.score * rule.weight,
                             !.total_weight = @ + rule.weight]

\* the body of the loop of FraudDetector.analyze for one rule; `res` is what
\* the rule's signal does when it is invoked.  The try/except absorbs a
\* failure of the signal and a failure of the arithmetic on the weight, which
\* happens after the rule was appended to triggered_rules.
process_rule(acc, rule, res) ==
    IF ~rule.enabled THEN acc
    ELSE IF rule.name \notin AlgorithmNames THEN acc
    ELSE IF ~res.ok THEN acc
    ELSE LET triggered ==
                 IF res.score >= rule.threshold
                 THEN Append(acc.triggered_rules, rule.name)
                 ELSE acc.triggered_rules
         IN IF ~rule.is_number
            THEN [acc EXCEPT !.triggered_rules = triggered]
            ELSE [acc EXCEPT !.triggered_rules = triggered,
                             !.total_weighted_score = @ + res.score * rule.weight,
                             !.total_weight = @ + rule.weight]

\* the loop of FraudDetector.analyze over self.rules.items()
RECURSIVE process_rules(_, _, _)
process_rules(acc, rs, results) ==
    IF rs = << >> \/ acc.raised THEN acc
    ELSE process_rules(
             process_rule(acc, Head(rs),
                          IF Head(rs).name \in AlgorithmNames
                          THEN results[Head(rs).name]
                          ELSE [ok |-> FALSE, score |-> 0]),
             Tail(rs), results)

\* risk_score = total_weighted_score / total_weight if total_weight > 0 else 0.0
risk_score_of(acc) ==
    IF acc.total_weight > 0
    THEN Ratio(acc.total_weighted_score, acc.total_weight)
    ELSE Ratio(0, 1)

\* min(risk_score, 1.0), the value stored in the FraudResult
reported_risk_score(risk_score) ==
    IF risk_score.num > SCALE * risk_score.den THEN Ratio(SCALE, 1) ELSE risk_score

\* is_fraudulent = risk_score >= self.config.global_threshold
is_fraudulent_of(risk_score, global_threshold) ==
    risk_score.num >= global_threshold * risk_score.den

\* the confidence without the cap at 1.0
confidence_uncapped(triggered_rules, cfg) ==
    IF Len(cfg.rules) = 0 THEN Ratio(0, 1)
    ELSE Ratio(Len(triggered_rules), Len(cfg.rules))

\* confidence = min(len(triggered_rules) / len(self.config.rules), 1.0)
\*              if self.config.rules else 0.0
confidence_of(triggered_rules, cfg) ==
    IF Len(cfg.rules) = 0 THEN Ratio(0, 1)
    ELSE IF Len(triggered_rules) > Len(cfg.rules) THEN Ratio(1, 1)
    ELSE Ratio(Len(triggered_rules), Len(cfg.rules))

\* FraudDetector._generate_recommendations
generate_recommendations(triggered_rules, risk_score, confidence) ==
    (IF InSeq("velocity", triggered_rules) THEN <<"velocity limits">> ELSE << >>)
    \o (IF InSeq("amount", triggered_rules) THEN <<"amount thresholds">> ELSE << >>)
    \o (IF InSeq("location", triggered_rules) THEN <<"verify location">> ELSE << >>)
    \o (IF risk_score.num * 10 > 8 * SCALE * risk_score.den
        THEN <<"manual review">> ELSE << >>)
    \o (IF confidence.num * 2 < confidence.den
        THEN <<"gather more data">> ELSE << >>)

\* the FraudResult built at the end of FraudDetector.analyze
fraud_result(transaction, acc, cfg) ==
    LET risk_score == risk_score_of(acc)
        confidence == confidence_of(acc.triggered_rules, cfg)
    IN [transaction_id |-> transaction.id,
        risk_score |-> reported_risk_score(risk_score),
        is_fraudulent |-> is_fraudulent_of(risk_score, cfg.global_threshold),
        confidence |-> confidence,
        triggered_rules |-> acc.triggered_rules,
        recommendations |-> generate_recommendations(
                                acc.triggered_rules,
                                reported_risk_score(risk_score), confidence)]

\* the signal of every registered rule is invoked, the disabled ones too
RunsDisabledToo(rs, name) ==
    \E i \in 1..Len(rs) : rs[i].name = name

\* the signal of rule `name` is invoked by analyze
Runs(rs, name) ==
    \E i \in 1..Len(rs) : rs[i].name = name /\ rs[i].enabled

----------------------------------------------------------------------------
(* Construction *)

\* models.FraudDetectorConfig
FraudDetectorConfig(rule_list, thresholds, custom_rules) ==
    [rules |-> rule_list, thresholds |-> thresholds, global_threshold |-> 7000,
     custom_rules |-> custom_rules]

NoThresholds == [n \in {} |-> 0]

\* the thresholds of the test fixture
FixtureThresholds ==
    [n \in {"velocity", "amount", "location"} |->
        CASE n = "velocity" -> 8000 [] n = "amount" -> 9000 [] OTHER -> 7000]

\* the configurations the detector is constructed with
Configs ==
    { FraudDetectorConfig(<<"velocity", "amount", "location">>,
                          FixtureThresholds, << >>),
      FraudDetectorConfig(<<"velocity", "amount", "location", "device", "time",
                            "merchant", "behavioral", "network", "ml">>,
                          NoThresholds, << >>),
      FraudDetectorConfig(<<"velocity">>, [n \in {"velocity"} |-> 5000],
                          <<DetectionRule("amount", -10, TRUE, 9000, TRUE)>>),
      FraudDetectorConfig(<< >>, NoThresholds,
                          <<DetectionRule("time", 0, FALSE, 1000, TRUE),
                            DetectionRule("custom", 50, TRUE, 1000, TRUE)>>) }

\* state of the signals after FraudDetector._initialize_algorithms
InitStoresExceptTime ==
    /\ transaction_history = [u \in Users |-> << >>]
    /\ user_locations = [u \in Users |-> [present |-> FALSE, locs |-> << >>]]
    /\ feature_history = [u \in Users |-> << >>]
    /\ device_fingerprints = [d \in AllDeviceIds |-> NoFingerprint]
    /\ user_devices = [u \in Users |-> {}]
    /\ ip_profiles = [a \in IpAddresses |-> NoIpProfile]
    /\ user_ips = [u \in Users |-> {}]
    /\ suspicious_ips = {}
    /\ trusted_ips = {}
    /\ merchant_profiles = [m \in MerchantIds |-> NoMerchantProfile]
    /\ user_merchants = [u \in Users |-> {}]
    /\ category_stats = [c \in Categories |-> NoCategoryStats]
    /\ user_profiles = [u \in Users |-> NoProfile]
    /\ behavior_history = [u \in Users |-> << >>]

\* state of the signals after FraudDetector._initialize_algorithms
InitStores ==
    /\ InitStoresExceptTime
    /\ user_time_patterns = [u \in Users |-> << >>]

\* FraudDetector.__init__
Init ==
    /\ clock = 0
    /\ config \in Configs
    /\ rules = initialize_rules(config)
    /\ InitStores
    /\ calls = 0
    /\ ticks = 0
    /\ muts = 0
    /\ tasks = << >>
    /\ running = IDLE
    /\ last = [op |-> "init"]

storeVars ==
    <<velocityVars, locationVars, mlVars, deviceVars, networkVars,
      merchantVars, timeVars, behavioralVars>>

\* the wall clock advances between calls
Tick ==
    /\ calls + muts + ticks < MaxSteps
    /\ clock' = clock + TickStep
    /\ ticks' = ticks + 1
    /\ last' = last
    /\ UNCHANGED <<registryVars, storeVars, calls, muts, taskVars>>

----------------------------------------------------------------------------
(* FraudDetector.analyze *)

\* the transactions sent to the detector: bare ones, one in pounds, and one
\* carrying every optional attribute
DetectorTransactions(id, clk) ==
    { Transaction(id, "u1", 100, clk),
      Transaction(id, "u1", 6000, clk),
      [Transaction(id, "u1", 4000, clk) EXCEPT !.currency = "GBP"],
      [Transaction(id, "u2", 1000, clk) EXCEPT
          !.location = "London", !.device_id = "d1", !.user_agent = "ua1",
          !.ip_address = "10.0.0.1", !.merchant_id = "m1",
          !.merchant_category = "gambling"] }

\* whether two clock reads of one signal fall on the same instant matters only
\* to a signal that runs and reads the clock for this transaction
SameInstantChoices(tx) ==
    { si \in [{"device", "network", "merchant"} -> BOOLEAN] :
        /\ si["device"] =>
              (Runs(rules, "device")
               /\ ~(tx.device_id = NONE /\ tx.user_agent = NONE
                    /\ tx.ip_address = NONE))
        /\ si["network"] => (Runs(rules, "network") /\ tx.ip_address # NONE)
        /\ si["merchant"] => (Runs(rules, "merchant") /\ tx.merchant_id # NONE) }

Analyze ==
    /\ calls + muts + ticks < MaxSteps
    /\ \E tx \in DetectorTransactions(calls + 1, clock) :
       \E same_instant \in SameInstantChoices(tx) :
         LET vel == VelocityAnalyze(tx, clock, transaction_history)
             amt == AmountAnalyze(tx)
             loc == LocationAnalyze(tx, user_locations)
             dev == DeviceAnalyze(tx, clock, same_instant["device"],
                                  device_fingerprints, user_devices)
             tim == TimeAnalyze(tx, user_time_patterns)
             mer == MerchantAnalyze(DetectorMerchantConfig, tx, clock,
                                    same_instant["merchant"], merchant_profiles,
                                    user_merchants, category_stats)
             beh == BehavioralAnalyze(tx, clock, user_profiles, behavior_history)
             net == NetworkAnalyze(tx, clock, same_instant["network"], ip_profiles,
                                   user_ips, suspicious_ips, trusted_ips)
             ml == MLAnalyze(tx, feature_history)
             results ==
                 [n \in AlgorithmNames |->
                    CASE n = "velocity" -> [ok |-> vel.ok, score |-> vel.score]
                      [] n = "amount" -> [ok |-> amt.ok, score |-> amt.score]
                      [] n = "location" -> [ok |-> loc.ok, score |-> loc.score]
                      [] n = "device" -> [ok |-> dev.ok, score |-> dev.score]
                      [] n = "time" -> [ok |-> tim.ok, score |-> tim.score]
                      [] n = "merchant" -> [ok |-> mer.ok, score |-> mer.score]
                      [] n = "behavioral" -> [ok |-> beh.ok, score |-> beh.score]
                      [] n = "network" -> [ok |-> net.ok, score |-> net.score]
                      [] OTHER -> [ok |-> ml.ok, score |-> ml.score]]
             acc == process_rules(EmptyAcc, rules, results)
         IN /\ transaction_history' =
                  IF Runs(rules, "velocity") THEN vel.store ELSE transaction_history
            /\ user_locations' =
                  IF Runs(rules, "location") THEN loc.store ELSE user_locations
            /\ device_fingerprints' =
                  IF Runs(rules, "device") THEN dev.fingerprints ELSE device_fingerprints
            /\ user_devices' =
                  IF Runs(rules, "device") THEN dev.devices ELSE user_devices
            /\ user_time_patterns' =
                  IF Runs(rules, "time") THEN tim.store ELSE user_time_patterns
            /\ merchant_profiles' =
                  IF Runs(rules, "merchant") THEN mer.profiles ELSE merchant_profiles
            /\ user_merchants' =
                  IF Runs(rules, "merchant") THEN mer.merchants ELSE user_merchants
            /\ category_stats' =
                  IF Runs(rules, "merchant") THEN mer.stats ELSE category_stats
            /\ user_profiles' =
                  IF Runs(rules, "behavioral") THEN beh.profiles ELSE user_profiles
            /\ behavior_history' =
                  IF Runs(rules, "behavioral") THEN beh.history ELSE behavior_history
            /\ ip_profiles' =
                  IF Runs(rules, "network") THEN net.profiles ELSE ip_profiles
            /\ user_ips' =
                  IF Runs(rules, "network") THEN net.ips ELSE user_ips
            /\ feature_history' =
                  IF Runs(rules, "ml") THEN ml.store ELSE feature_history
            /\ last' = [op |-> "analyze", tx |-> tx, raised |-> acc.raised,
                        rules |-> rules, results |-> results,
                        global_threshold |-> config.global_threshold,
                        configured |-> Len(config.rules),
                        result |-> IF acc.raised THEN [transaction_id |-> NONE]
                                   ELSE fraud_result(tx, acc, config)]
    /\ calls' = calls + 1
    /\ UNCHANGED <<clock, registryVars, suspicious_ips, trusted_ips, ticks, muts, taskVars>>

----------------------------------------------------------------------------
(* Configuration update methods of FraudDetector *)

\* rule names passed to the update methods; the last one is not registered
MutationNames == {"velocity", "amount", "unknown_rule"}

MutationThresholds == {0, 10000}

GlobalThresholds == {0, 15000}

\* update_threshold that also switches the rule on
update_threshold_enables(rs, name, threshold) ==
    IF HasRule(rs, name)
    THEN [rs EXCEPT ![RuleIndex(rs, name)].threshold = threshold,
                    ![RuleIndex(rs, name)].enabled = TRUE]
    ELSE rs

\* FraudDetector.update_threshold: the registry after the call
update_threshold(rs, name, threshold) ==
    IF HasRule(rs, name)
    THEN [rs EXCEPT ![RuleIndex(rs, name)].threshold = threshold]
    ELSE rs

\* FraudDetector.enable_rule (flag TRUE) and disable_rule (flag FALSE): the
\* registry after the call
set_enabled(rs, name, flag) ==
    IF HasRule(rs, name)
    THEN [rs EXCEPT ![RuleIndex(rs, name)].enabled = flag]
    ELSE rs

\* FraudDetector.update_threshold
UpdateThreshold ==
    /\ calls + muts + ticks < MaxSteps
    /\ \E name \in MutationNames, threshold \in MutationThresholds :
         /\ rules' = update_threshold(rules, name, threshold)
         /\ last' = [op |-> "update_threshold", name |-> name,
                     threshold |-> threshold]
    /\ muts' = muts + 1
    /\ UNCHANGED <<clock, config, storeVars, calls, ticks, taskVars>>

\* FraudDetector.update_global_threshold
UpdateGlobalThreshold ==
    /\ calls + muts + ticks < MaxSteps
    /\ \E threshold \in GlobalThresholds :
         /\ config' = [config EXCEPT !.global_threshold = threshold]
         /\ last' = [op |-> "update_global_threshold", threshold |-> threshold]
    /\ muts' = muts + 1
    /\ UNCHANGED <<clock, rules, storeVars, calls, ticks, taskVars>>

\* FraudDetector.enable_rule
EnableRule ==
    /\ calls + muts + ticks < MaxSteps
    /\ \E name \in MutationNames :
         /\ rules' = set_enabled(rules, name, TRUE)
         /\ last' = [op |-> "enable_rule", name |-> name]
    /\ muts' = muts + 1
    /\ UNCHANGED <<clock, config, storeVars, calls, ticks, taskVars>>

\* FraudDetector.disable_rule
DisableRule ==
    /\ calls + muts + ticks < MaxSteps
    /\ \E name \in MutationNames :
         /\ rules' = set_enabled(rules, name, FALSE)
         /\ last' = [op |-> "disable_rule", name |-> name]
    /\ muts' = muts + 1
    /\ UNCHANGED <<clock, config, storeVars, calls, ticks, taskVars>>

Next ==
    \/ Analyze
    \/ UpdateThreshold
    \/ UpdateGlobalThreshold
    \/ EnableRule
    \/ DisableRule
    \/ Tick

Spec == Init /\ [][Next]_vars

----------------------------------------------------------------------------
(* The velocity signal called directly, as tests/test_fraud_detector.py and
   the signal's own callers do: algorithm.analyze(transaction, rule) *)

MaxVelocityCalls == 2

MaxVelocityTicks == 2

\* timestamps a caller can put on a transaction: any grid instant
VelocityTimestamps == {k * TickStep : k \in 0..MaxVelocityTicks}

VelocityTransactions(id) ==
    { Transaction(id, u, a, ts) :
        u \in Users, a \in {100, 6000}, ts \in VelocityTimestamps }

\* a detector constructed with the configuration of the test fixture
InitSignals ==
    /\ clock = 0
    /\ config = FraudDetectorConfig(<<"velocity", "amount", "location">>,
                                    FixtureThresholds, << >>)
    /\ rules = initialize_rules(config)
    /\ InitStores
    /\ calls = 0
    /\ ticks = 0
    /\ muts = 0
    /\ tasks = << >>
    /\ running = IDLE
    /\ last = [op |-> "init"]

VelocityTick ==
    /\ ticks < MaxVelocityTicks
    /\ clock' = clock + TickStep
    /\ ticks' = ticks + 1
    /\ UNCHANGED <<registryVars, storeVars, calls, muts, taskVars, last>>

\* VelocityAlgorithm.analyze(transaction, rule)
VelocityCall ==
    /\ calls < MaxVelocityCalls
    /\ \E tx \in VelocityTransactions(calls + 1) :
         LET vel == VelocityAnalyze(tx, clock, transaction_history)
         IN /\ transaction_history' = vel.store
            /\ last' = [op |-> "velocity", tx |-> tx, clock |-> clock,
                        before |-> transaction_history[tx.user_id],
                        others |-> [u \in Users \ {tx.user_id} |->
                                      transaction_history[u]],
                        count |-> vel.count, total |-> vel.total,
                        score |-> vel.score]
    /\ calls' = calls + 1
    /\ UNCHANGED <<clock, registryVars, locationVars, mlVars, deviceVars,
                   networkVars, merchantVars, timeVars, behavioralVars,
                   ticks, muts, taskVars>>

NextVelocity ==
    \/ VelocityCall
    \/ VelocityTick

SpecVelocity == InitSignals /\ [][NextVelocity]_vars

----------------------------------------------------------------------------
(* The location, device, network and merchant signals called directly, as
   tests/test_new_algorithms.py does: algorithm.analyze(transaction, rule) *)

MaxSignalCalls == 2

SignalTransactions(id, clk) ==
    { Transaction(id, u, 100, clk) : u \in Users }

\* LocationAlgorithm.analyze(transaction, rule)
LocationCall ==
    /\ calls < MaxSignalCalls
    /\ \E base \in SignalTransactions(calls + 1, clock),
          place \in Opt({"NewYork", "London"}) :
         LET tx == [base EXCEPT !.location = place]
             loc == LocationAnalyze(tx, user_locations)
         IN /\ user_locations' = loc.store
            /\ last' = [op |-> "location", tx |-> tx, ok |-> loc.ok,
                        score |-> loc.score,
                        before |-> user_locations[tx.user_id].locs]
    /\ calls' = calls + 1
    /\ UNCHANGED <<clock, registryVars, velocityVars, mlVars, deviceVars,
                   networkVars, merchantVars, timeVars, behavioralVars,
                   ticks, muts, taskVars>>

\* DeviceAlgorithm.analyze(transaction, rule)
DeviceCall ==
    /\ calls < MaxSignalCalls
    /\ \E base \in SignalTransactions(calls + 1, clock),
          device_id \in Opt({"d1"}), user_agent \in Opt({"ua1"}),
          ip_address \in Opt({"10.0.0.1"}), same_instant \in BOOLEAN :
         LET tx == [base EXCEPT !.device_id = device_id,
                                !.user_agent = user_agent,
                                !.ip_address = ip_address]
             dev == DeviceAnalyze(tx, clock, same_instant,
                                  device_fingerprints, user_devices)
         IN /\ device_fingerprints' = dev.fingerprints
            /\ user_devices' = dev.devices
            /\ last' = [op |-> "device", tx |-> tx, ok |-> dev.ok,
                        score |-> dev.score, clock |-> clock,
                        same_instant |-> same_instant,
                        fingerprints |-> device_fingerprints,
                        devices |-> user_devices]
    /\ calls' = calls + 1
    /\ UNCHANGED <<clock, registryVars, velocityVars, locationVars, mlVars,
                   networkVars, merchantVars, timeVars, behavioralVars,
                   ticks, muts, taskVars>>

\* NetworkAlgorithm.analyze(transaction, rule)
NetworkCall ==
    /\ calls < MaxSignalCalls
    /\ \E base \in SignalTransactions(calls + 1, clock),
          ip_address \in Opt({"10.0.0.1"}), same_instant \in BOOLEAN :
         LET tx == [base EXCEPT !.ip_address = ip_address]
             net == NetworkAnalyze(tx, clock, same_instant, ip_profiles,
                                   user_ips, suspicious_ips, trusted_ips)
         IN /\ ip_profiles' = net.profiles
            /\ user_ips' = net.ips
            /\ last' = [op |-> "network", tx |-> tx, ok |-> net.ok,
                        score |-> net.score, clock |-> clock,
                        same_instant |-> same_instant,
                        profiles |-> ip_profiles, ips |-> user_ips]
    /\ calls' = calls + 1
    /\ UNCHANGED <<clock, registryVars, velocityVars, locationVars, mlVars,
                   deviceVars, suspicious_ips, trusted_ips, merchantVars,
                   timeVars, behavioralVars, ticks, muts, taskVars>>

\* MerchantAlgorithm.analyze(transaction, rule)
MerchantCall ==
    /\ calls < MaxSignalCalls
    /\ \E base \in SignalTransactions(calls + 1, clock),
          merchant_id \in Opt({"m1"}), same_instant \in BOOLEAN :
         LET tx == [base EXCEPT !.merchant_id = merchant_id,
                                !.merchant_category = "gambling"]
             mer == MerchantAnalyze(FixtureMerchantConfig, tx, clock,
                                    same_instant, merchant_profiles,
                                    user_merchants, category_stats)
         IN /\ merchant_profiles' = mer.profiles
            /\ user_merchants' = mer.merchants
            /\ category_stats' = mer.stats
            /\ last' = [op |-> "merchant", tx |-> tx, ok |-> mer.ok,
                        score |-> mer.score, clock |-> clock,
                        same_instant |-> same_instant,
                        profiles |-> merchant_profiles]
    /\ calls' = calls + 1
    /\ UNCHANGED <<clock, registryVars, velocityVars, locationVars, mlVars,
                   deviceVars, networkVars, timeVars, behavioralVars,
                   ticks, muts, taskVars>>

NextSignals ==
    \/ LocationCall
    \/ DeviceCall
    \/ NetworkCall
    \/ MerchantCall
    \/ Tick

SpecSignals == InitSignals /\ [][NextSignals]_vars

----------------------------------------------------------------------------
(* A burst of small transactions through the velocity signal, as in
   tests/test_fraud_detector.py::test_velocity_detection *)

MaxBurstCalls == 11

MaxBurstTicks == 2

BurstTick ==
    /\ ticks < MaxBurstTicks
    /\ clock' = clock + TickStep
    /\ ticks' = ticks + 1
    /\ UNCHANGED <<registryVars, storeVars, calls, muts, taskVars, last>>

\* VelocityAlgorithm.analyze on a transaction of 100 stamped datetime.now()
BurstCall ==
    /\ calls < MaxBurstCalls
    /\ \E u \in Users :
         LET tx == Transaction(calls + 1, u, 100, clock)
             vel == VelocityAnalyze(tx, clock, transaction_history)
         IN /\ transaction_history' = vel.store
            /\ last' = [op |-> "velocity", tx |-> tx, clock |-> clock,
                        before |-> transaction_history[tx.user_id],
                        others |-> [v \in Users \ {tx.user_id} |->
                                      transaction_history[v]],
                        count |-> vel.count, total |-> vel.total,
                        score |-> vel.score]
    /\ calls' = calls + 1
    /\ UNCHANGED <<clock, registryVars, locationVars, mlVars, deviceVars,
                   networkVars, merchantVars, timeVars, behavioralVars,
                   ticks, muts, taskVars>>

NextBurst ==
    \/ BurstCall
    \/ BurstTick

SpecBurst == InitSignals /\ [][NextBurst]_vars

----------------------------------------------------------------------------
(* The amount signal called directly *)

MaxAmountCalls == 2

AmountInputs == {0, 500, 1000, 3000, 5000, 15000}

Currencies == {"USD", "EUR", "GBP", "JPY", "CHF", NONE}

\* AmountAlgorithm.analyze(transaction, rule); the call before it is kept to
\* compare two amounts
AmountCall ==
    /\ calls < MaxAmountCalls
    /\ \E amount \in AmountInputs, currency \in Currencies :
         LET tx == [Transaction(calls + 1, "u1", amount, clock)
                       EXCEPT !.currency = currency]
             amt == AmountAnalyze(tx)
         IN last' = [op |-> "amount", tx |-> tx, ok |-> amt.ok,
                     score |-> amt.score,
                     prev |-> IF last.op = "amount"
                              THEN <<[tx |-> last.tx, score |-> last.score]>>
                              ELSE << >>]
    /\ calls' = calls + 1
    /\ UNCHANGED <<clock, registryVars, storeVars, ticks, muts, taskVars>>

NextAmount ==
    \/ AmountCall

SpecAmount == InitSignals /\ [][NextAmount]_vars

----------------------------------------------------------------------------
(* Each signal called directly on an algorithm object of its own, as every
   test class of tests/test_new_algorithms.py does; the merchant signal is
   built with the fixture's configuration, the others as the detector builds
   them *)

MaxScoreCalls == 6

MaxScoreTicks == 2

\* the transactions sent to the signal `name`; the time signal reads the
\* transaction's own timestamp, which may lie three hours ahead (a Saturday,
\* midnight, on a holiday)
ScoreTransactions(name, id, clk) ==
    LET base == Transaction(id, "u1", 100, clk)
    IN CASE name = "velocity" ->
              { Transaction(id, "u1", a, clk) : a \in {100, 6000} }
         [] name = "amount" ->
              { Transaction(id, "u1", a, clk) : a \in {0, 3000, 15000} }
         [] name = "location" ->
              { [base EXCEPT !.location = p] : p \in Opt({"London"}) }
         [] name = "device" ->
              { [base EXCEPT !.device_id = "d1", !.user_agent = ua,
                             !.ip_address = ip] :
                   ua \in Opt({"ua1"}), ip \in Opt({"10.0.0.1"}) }
         [] name = "time" ->
              { Transaction(id, "u1", 100, t) : t \in {clk, clk + 3 * 3600} }
         [] name = "merchant" ->
              { [base EXCEPT !.merchant_id = "trusted_merchant"] }
              \cup { [base EXCEPT !.merchant_id = "m1",
                                  !.merchant_category = c] :
                       c \in {"gambling", "adult"} }
         [] name = "behavioral" ->
              { base, Transaction(id, "u1", 10000, clk),
                [base EXCEPT !.location = "London"] }
         [] name = "network" ->
              { [base EXCEPT !.ip_address = "10.0.0.1", !.location = p] :
                   p \in Opt({"London"}) }
         [] OTHER -> { base }

ScoreTick ==
    /\ ticks < MaxScoreTicks
    /\ clock' = clock + TickStep
    /\ ticks' = ticks + 1
    /\ last' = last
    /\ UNCHANGED <<registryVars, storeVars, calls, muts, taskVars>>

\* algorithm.analyze(transaction, rule) on the algorithm object `name`
ScoreCall ==
    /\ calls < MaxScoreCalls
    /\ \E name \in AlgorithmNames :
         /\ IF last.op = "init" THEN TRUE ELSE last.name = name
         /\ \E tx \in ScoreTransactions(name, calls + 1, clock),
               same_instant \in BOOLEAN :
              LET vel == VelocityAnalyze(tx, clock, transaction_history)
                  amt == AmountAnalyze(tx)
                  loc == LocationAnalyze(tx, user_locations)
                  dev == DeviceAnalyze(tx, clock, same_instant,
                                       device_fingerprints, user_devices)
                  tim == TimeAnalyze(tx, user_time_patterns)
                  mer == MerchantAnalyze(FixtureMerchantConfig, tx, clock,
                                         same_instant, merchant_profiles,
                                         user_merchants, category_stats)
                  beh == BehavioralAnalyze(tx, clock, user_profiles,
                                           behavior_history)
                  net == NetworkAnalyze(tx, clock, same_instant, ip_profiles,
                                        user_ips, suspicious_ips, trusted_ips)
                  ml == MLAnalyze(tx, feature_history)
                  res == CASE name = "velocity" -> [ok |-> vel.ok, score |-> vel.score]
                           [] name = "amount" -> [ok |-> amt.ok, score |-> amt.score]
                           [] name = "location" -> [ok |-> loc.ok, score |-> loc.score]
                           [] name = "device" -> [ok |-> dev.ok, score |-> dev.score]
                           [] name = "time" -> [ok |-> tim.ok, score |-> tim.score]
                           [] name = "merchant" -> [ok |-> mer.ok, score |-> mer.score]
                           [] name = "behavioral" -> [ok |-> beh.ok, score |-> beh.score]
                           [] name = "network" -> [ok |-> net.ok, score |-> net.score]
                           [] OTHER -> [ok |-> ml.ok, score |-> ml.score]
              IN /\ transaction_history' =
                       IF name = "velocity" THEN vel.store ELSE transaction_history
                 /\ user_locations' =
                       IF name = "location" THEN loc.store ELSE user_locations
                 /\ device_fingerprints' =
                       IF name = "device" THEN dev.fingerprints ELSE device_fingerprints
                 /\ user_devices' =
                       IF name = "device" THEN dev.devices ELSE user_devices
                 /\ user_time_patterns' =
                       IF name = "time" THEN tim.store ELSE user_time_patterns
                 /\ merchant_profiles' =
                       IF name = "merchant" THEN mer.profiles ELSE merchant_profiles
                 /\ user_merchants' =
                       IF name = "merchant" THEN mer.merchants ELSE user_merchants
                 /\ category_stats' =
                       IF name = "merchant" THEN mer.stats ELSE category_stats
                 /\ user_profiles' =
                       IF name = "behavioral" THEN beh.profiles ELSE user_profiles
                 /\ behavior_history' =
                       IF name = "behavioral" THEN beh.history ELSE behavior_history
                 /\ ip_profiles' =
                       IF name = "network" THEN net.profiles ELSE ip_profiles
                 /\ user_ips' =
                       IF name = "network" THEN net.ips ELSE user_ips
                 /\ feature_history' =
                       IF name = "ml" THEN ml.store ELSE feature_history
                 /\ last' = [op |-> "score", name |-> name, tx |-> tx,
                             ok |-> res.ok, score |-> res.score]
    /\ calls' = calls + 1
    /\ UNCHANGED <<clock, registryVars, suspicious_ips, trusted_ips, ticks, muts, taskVars>>

NextScores ==
    \/ ScoreCall
    \/ ScoreTick

SpecScores == InitSignals /\ [][NextScores]_vars

----------------------------------------------------------------------------
(* FraudDetector.get_velocity_stats read between calls of
   FraudDetector.analyze, as in tests/test_fraud_detector.py.  `last.analyzed`
   is the list of every transaction analyzed so far. *)

MaxStatsCalls == 2

MaxStatsTicks == 2

MaxStatsReads == 1

StatsWindows == {time_window, 2 * time_window}

AnalyzedSoFar == IF last.op = "init" THEN << >> ELSE last.analyzed

StatsTick ==
    /\ ticks < MaxStatsTicks
    /\ clock' = clock + TickStep
    /\ ticks' = ticks + 1
    /\ last' = last
    /\ UNCHANGED <<registryVars, storeVars, calls, muts, taskVars>>

\* FraudDetector.analyze of a transaction that carries no optional attribute,
\* under the rules velocity, amount and location: the velocity store is the
\* only state it writes
StatsAnalyze ==
    /\ calls < MaxStatsCalls
    /\ \E u \in Users :
         LET tx == Transaction(calls + 1, u, 100, clock)
             vel == VelocityAnalyze(tx, clock, transaction_history)
             loc == LocationAnalyze(tx, user_locations)
         IN /\ transaction_history' = vel.store
            /\ user_locations' = loc.store
            /\ last' = [op |-> "analyze_stats", tx |-> tx,
                        analyzed |-> Append(AnalyzedSoFar, tx)]
    /\ calls' = calls + 1
    /\ UNCHANGED <<clock, registryVars, mlVars, deviceVars, networkVars,
                   merchantVars, timeVars, behavioralVars, ticks, muts, taskVars>>

\* FraudDetector.get_velocity_stats(user_id, time_window_minutes)
GetVelocityStats ==
    /\ muts < MaxStatsReads
    /\ \E u \in Users, w \in StatsWindows :
         last' = [op |-> "stats", user_id |-> u, minutes |-> w,
                  clock |-> clock,
                  stats |-> get_velocity_stats(transaction_history, u, w, clock),
                  analyzed |-> AnalyzedSoFar]
    /\ muts' = muts + 1
    /\ UNCHANGED <<clock, registryVars, storeVars, calls, ticks, taskVars>>

NextStats ==
    \/ StatsAnalyze
    \/ GetVelocityStats
    \/ StatsTick

SpecStats == InitSignals /\ [][NextStats]_vars

----------------------------------------------------------------------------
(* Several FraudDetector.analyze coroutines on one asyncio event loop, with
   the velocity and network rules enabled.  A coroutine gives the loop to
   another one only where an await suspends. *)

MaxTasks == 2

MaxTaskTicks == 1

TaskTransactions(id, clk) ==
    { [Transaction(id, u, 100, clk) EXCEPT !.ip_address = "10.0.0.1"] :
        u \in Users }

\* NetworkAlgorithm._get_geo_ip_data as a lookup that waits for a reply
get_geo_ip_data_waits == TRUE

\* NetworkAlgorithm._get_geo_ip_data: whether awaiting it suspends the caller.
\* Its body computes a dict from the address and awaits nothing.
get_geo_ip_data_suspends == FALSE

\* the coroutine the event loop is running
Current == CHOOSE t \in running : TRUE

\* the stores as they are when the calls made so far run one after another
SerialStores ==
    IF last.op = "task" THEN last.serial
    ELSE [history |-> transaction_history, profiles |-> ip_profiles,
          ips |-> user_ips]

\* the idle loop runs a ready coroutine: the task asyncio creates for a new
\* detector.analyze(transaction), or one that was suspended at an await
TaskSchedule ==
    /\ running = IDLE
    /\ \E t \in 1..(Len(tasks) + 1) :
         IF t > Len(tasks)
         THEN /\ Len(tasks) < MaxTasks
              /\ \E tx \in TaskTransactions(t, clock), same_instant \in BOOLEAN :
                   LET vel == VelocityAnalyze(tx, clock, SerialStores.history)
                       net == NetworkAnalyze(tx, clock, same_instant,
                                             SerialStores.profiles,
                                             SerialStores.ips,
                                             suspicious_ips, trusted_ips)
                   IN /\ tasks' = Append(tasks,
                                         [pc |-> "velocity", tx |-> tx,
                                          same_instant |-> same_instant,
                                          found |-> FALSE, ok |-> FALSE])
                      /\ last' = [op |-> "task",
                                  serial |-> [history |-> vel.store,
                                              profiles |-> net.profiles,
                                              ips |-> net.ips]]
              /\ running' = {t}
         ELSE /\ tasks[t].pc = "suspended"
              /\ tasks' = [tasks EXCEPT ![t].pc = "update"]
              /\ running' = {t}
              /\ last' = last
    /\ UNCHANGED <<clock, registryVars, storeVars, calls, ticks, muts>>

\* FraudDetector.analyze awaits VelocityAlgorithm.analyze, which awaits nothing
TaskVelocity ==
    /\ running # IDLE
    /\ tasks[Current].pc = "velocity"
    /\ transaction_history' =
          VelocityAnalyze(tasks[Current].tx, clock, transaction_history).store
    /\ tasks' = [tasks EXCEPT ![Current].pc = "lookup"]
    /\ UNCHANGED <<clock, registryVars, locationVars, mlVars, deviceVars,
                   networkVars, merchantVars, timeVars, behavioralVars,
                   calls, ticks, muts, running, last>>

\* NetworkAlgorithm._get_or_create_ip_profile: profile = self.ip_profiles.get(..)
TaskLookup ==
    /\ running # IDLE
    /\ tasks[Current].pc = "lookup"
    /\ tasks' = [tasks EXCEPT
                    ![Current].found =
                        ip_profiles[tasks[Current].tx.ip_address].present,
                    ![Current].pc =
                        IF ip_profiles[tasks[Current].tx.ip_address].present
                        THEN "update" ELSE "geo"]
    /\ UNCHANGED <<clock, registryVars, storeVars, calls, ticks, muts,
                   running, last>>

\* geo_data = await self._get_geo_ip_data(ip_address)
TaskGeo ==
    /\ running # IDLE
    /\ tasks[Current].pc = "geo"
    /\ tasks' = [tasks EXCEPT ![Current].pc =
                    IF get_geo_ip_data_suspends THEN "suspended" ELSE "update"]
    /\ running' = IF get_geo_ip_data_suspends THEN IDLE ELSE running
    /\ UNCHANGED <<clock, registryVars, storeVars, calls, ticks, muts, last>>

\* the rest of NetworkAlgorithm.analyze: a coroutine that found no profile
\* stores the one it builds under the address, whatever is there by now; the
\* scoring and _update_ip_profile follow without an await
TaskUpdate ==
    /\ running # IDLE
    /\ tasks[Current].pc = "update"
    /\ LET tx == tasks[Current].tx
           net == NetworkAnalyze(
                      tx, clock, tasks[Current].same_instant,
                      IF tasks[Current].found THEN ip_profiles
                      ELSE [ip_profiles EXCEPT ![tx.ip_address] = NoIpProfile],
                      user_ips, suspicious_ips, trusted_ips)
       IN /\ ip_profiles' = net.profiles
          /\ user_ips' = net.ips
          /\ tasks' = [tasks EXCEPT ![Current].pc = "done",
                                    ![Current].ok = net.ok]
    /\ running' = IDLE
    /\ calls' = calls + 1
    /\ UNCHANGED <<clock, registryVars, velocityVars, locationVars, mlVars,
                   deviceVars, suspicious_ips, trusted_ips, merchantVars,
                   timeVars, behavioralVars, ticks, muts, last>>

\* the wall clock advances while the loop is idle
TaskTick ==
    /\ running = IDLE
    /\ ticks < MaxTaskTicks
    /\ clock' = clock + TickStep
    /\ ticks' = ticks + 1
    /\ UNCHANGED <<registryVars, storeVars, calls, muts, taskVars, last>>

NextTasks ==
    \/ TaskSchedule
    \/ TaskVelocity
    \/ TaskLookup
    \/ TaskGeo
    \/ TaskUpdate
    \/ TaskTick

SpecTasks == InitSignals /\ [][NextTasks]_vars

----------------------------------------------------------------------------
(* The time signal called directly, on users who already have up to a
   hundred stored patterns *)

MaxTimeCalls == 3

MaxTimeTicks == 1

\* the number of patterns user u1 has stored when the run begins
StoredBefore == {0, max_time_patterns - 1, max_time_patterns}

\* the patterns of n earlier hourly transactions of the user, oldest first
EarlierPatterns(user_id, n) ==
    [i \in 1..n |-> analyze_time_pattern(Transaction(i, user_id, 100, i * 3600))]

InitTime ==
    /\ \E n \in StoredBefore :
         /\ clock = n * 3600
         /\ user_time_patterns =
               [u \in Users |-> IF u = "u1" THEN EarlierPatterns(u, n) ELSE << >>]
    /\ config = FraudDetectorConfig(<<"time">>, NoThresholds, << >>)
    /\ rules = initialize_rules(config)
    /\ InitStoresExceptTime
    /\ calls = 0
    /\ ticks = 0
    /\ muts = 0
    /\ tasks = << >>
    /\ running = IDLE
    /\ last = [op |-> "stored", arrivals |-> user_time_patterns]

\* TimeAlgorithm.analyze(transaction, rule)
TimeCall ==
    /\ calls < MaxTimeCalls
    /\ \E u \in Users, timestamp \in {clock, clock + 3 * 3600} :
         LET tx == Transaction(calls + 1, u, 100, timestamp)
             tim == TimeAnalyze(tx, user_time_patterns)
         IN /\ user_time_patterns' = tim.store
            /\ last' = [op |-> "time", tx |-> tx, ok |-> tim.ok,
                        score |-> tim.score,
                        before |-> user_time_patterns[u],
                        arrivals |-> [last.arrivals EXCEPT ![u] =
                                         Append(@, analyze_time_pattern(tx))]]
    /\ calls' = calls + 1
    /\ UNCHANGED <<clock, registryVars, velocityVars, locationVars, mlVars,
                   deviceVars, networkVars, merchantVars, behavioralVars,
                   ticks, muts, taskVars>>

TimeTick ==
    /\ ticks < MaxTimeTicks
    /\ clock' = clock + TickStep
    /\ ticks' = ticks + 1
    /\ UNCHANGED <<registryVars, storeVars, calls, muts, taskVars, last>>

NextTime ==
    \/ TimeCall
    \/ TimeTick

SpecTime == InitTime /\ [][NextTime]_vars

----------------------------------------------------------------------------
(* Properties of FraudDetector.analyze, stated on the call last made *)

\* the last operation was FraudDetector.analyze
Analyzed == last.op = "analyze"

\* at the last analyze call, rule r was enabled, had a signal, and the signal
\* returned a score
Contributed(r) ==
    r.enabled /\ r.name \in AlgorithmNames /\ last.results[r.name].ok

Score(r) == last.results[r.name].score

RECURSIVE NamesOf(_)
NamesOf(rs) == IF rs = << >> THEN << >> ELSE <<Head(rs).name>> \o NamesOf(Tail(rs))

RECURSIVE WeightedScoreSum(_)
WeightedScoreSum(rs) ==
    IF rs = << >> THEN 0
    ELSE Score(Head(rs)) * Head(rs).weight + WeightedScoreSum(Tail(rs))

RECURSIVE WeightSum(_)
WeightSum(rs) == IF rs = << >> THEN 0 ELSE Head(rs).weight + WeightSum(Tail(rs))

EnabledCount == Len(SelectSeq(last.rules, LAMBDA r : r.enabled))

\* C1: analyze never raises: whatever the registry and whichever signals fail,
\* the call returns a FraudResult with the transaction's id, a risk score, a
\* verdict, a confidence and a list of triggered rule names.
C1_AnalyzeNeverRaises ==
    Analyzed =>
        /\ ~last.raised
        /\ last.result.transaction_id = last.tx.id
        /\ last.result.risk_score.den > 0
        /\ last.result.confidence.den > 0
        /\ last.result.is_fraudulent \in BOOLEAN
        /\ \A i \in 1..Len(last.result.triggered_rules) :
              InSeq(last.result.triggered_rules[i], NamesOf(last.rules))

\* an analyze call during which an enabled signal failed
C1_Witness ==
    /\ Analyzed
    /\ ~last.raised
    /\ \E i \in 1..Len(last.rules) :
          /\ last.rules[i].enabled
          /\ last.rules[i].name \in AlgorithmNames
          /\ ~last.results[last.rules[i].name].ok

\* C2: in every FraudResult, 0 <= risk_score <= 1 and 0 <= confidence <= 1.
C2_ScoresInUnitInterval ==
    Analyzed =>
        /\ RatioLeq(Ratio(0, 1), last.result.risk_score)
        /\ RatioLeq(last.result.risk_score, Ratio(SCALE, 1))
        /\ RatioLeq(Ratio(0, 1), last.result.confidence)
        /\ RatioLeq(last.result.confidence, Ratio(1, 1))

\* C3: the risk score is sum(score * weight) / sum(weight) over the enabled
\* rules whose signal exists and did not fail, and 0 when no rule contributes
\* or the contributing weights sum to 0.
C3_WeightedAverage ==
    Analyzed =>
        LET contributing == SelectSeq(last.rules, Contributed)
        IN IF contributing = << >> \/ WeightSum(contributing) = 0
           THEN last.result.risk_score.num = 0
           ELSE last.result.risk_score.num * WeightSum(contributing)
                = WeightedScoreSum(contributing) * last.result.risk_score.den

\* C4: a rule is in triggered_rules iff it is enabled, its signal ran without
\* failing and the raw score is >= the rule's threshold; the names are in
\* registry order, without duplicates.
C4_TriggeredRules ==
    Analyzed =>
        /\ last.result.triggered_rules =
              NamesOf(SelectSeq(last.rules,
                                LAMBDA r : Contributed(r) /\ Score(r) >= r.threshold))
        /\ \A i, j \in 1..Len(last.result.triggered_rules) :
              last.result.triggered_rules[i] = last.result.triggered_rules[j]
                  => i = j

\* an analyze call where one rule triggered with its score equal to its
\* threshold and another ran without triggering
C4_Witness ==
    /\ Analyzed
    /\ \E i, j \in 1..Len(last.rules) :
          /\ Contributed(last.rules[i])
          /\ Score(last.rules[i]) = last.rules[i].threshold
          /\ InSeq(last.rules[i].name, last.result.triggered_rules)
          /\ Contributed(last.rules[j])
          /\ Score(last.rules[j]) < last.rules[j].threshold

\* C5: is_fraudulent is true exactly when the reported risk_score is >= the
\* global threshold in force at the call.
C5_VerdictMatchesReportedScore ==
    Analyzed =>
        (last.result.is_fraudulent
            <=> last.result.risk_score.num
                    >= last.global_threshold * last.result.risk_score.den)

\* C6: confidence = min(triggered / configured, 1.0), and 0 when no rule is
\* configured.
C6_Confidence ==
    Analyzed =>
        LET triggered == Len(last.result.triggered_rules)
        IN IF last.configured = 0
           THEN last.result.confidence.num = 0
           ELSE RatioEq(last.result.confidence,
                        IF triggered >= last.configured THEN Ratio(1, 1)
                        ELSE Ratio(triggered, last.configured))

\* an analyze call where more rules triggered than are configured
C6_Witness ==
    /\ Analyzed
    /\ last.configured > 0
    /\ Len(last.result.triggered_rules) > last.configured

\* C7: the confidence is the fraction of the currently enabled rules that
\* triggered on the call.
C7_ConfidenceOverEnabledRules ==
    (Analyzed /\ EnabledCount > 0) =>
        RatioEq(last.result.confidence,
                Ratio(Len(last.result.triggered_rules), EnabledCount))

----------------------------------------------------------------------------
(* Properties of the signals *)

\* C8: with the optional attribute absent (no location; no device id, user
\* agent and IP address; no IP address; no merchant id) the signal returns
\* exactly 0 without failing and leaves its store unchanged.
C8_AbsentAttribute ==
    [][calls' = calls + 1 =>
         /\ (last'.op = "location" /\ last'.tx.location = NONE)
               => (last'.ok /\ last'.score = 0 /\ UNCHANGED locationVars)
         /\ (last'.op = "device" /\ last'.tx.device_id = NONE
               /\ last'.tx.user_agent = NONE /\ last'.tx.ip_address = NONE)
               => (last'.ok /\ last'.score = 0 /\ UNCHANGED deviceVars)
         /\ (last'.op = "network" /\ last'.tx.ip_address = NONE)
               => (last'.ok /\ last'.score = 0 /\ UNCHANGED networkVars)
         /\ (last'.op = "merchant" /\ last'.tx.merchant_id = NONE)
               => (last'.ok /\ last'.score = 0 /\ UNCHANGED merchantVars)]_vars

\* the device signal called without device data after it recorded a device
C8_Witness ==
    /\ last.op = "device"
    /\ last.tx.device_id = NONE
    /\ last.tx.user_agent = NONE
    /\ last.tx.ip_address = NONE
    /\ last.ok
    /\ user_devices[last.tx.user_id] # {}

\* an event is inside the trailing window of time_window minutes ending at now
InTrailingWindow(e, now) ==
    now - time_window * 60 <= e.timestamp /\ e.timestamp <= now

\* C9: a recorded event whose timestamp is strictly outside the trailing
\* window that ends at the current transaction's timestamp contributes nothing
\* to the count and the cumulative amount, whatever the order of arrival.
C9_OutsideWindowContributesNothing ==
    last.op = "velocity" =>
        LET inside == SelectSeq(last.before,
                                LAMBDA e : InTrailingWindow(e, last.tx.timestamp))
        IN /\ last.count = Len(inside) + 1
           /\ last.total = SumAmount(inside) + last.tx.amount

\* C10: right after a velocity call, the user's history holds no event as old
\* as the window (age measured against the wall clock of the write), and it
\* holds the transaction just analyzed when that one is younger than the
\* window.
C10_HistoryAfterWrite ==
    last.op = "velocity" =>
        LET h == transaction_history[last.tx.user_id]
            cutoff_time == last.clock - time_window * 60
        IN /\ \A i \in 1..Len(h) : h[i].timestamp > cutoff_time
           /\ last.tx.timestamp > cutoff_time
                 => \E i \in 1..Len(h) :
                       h[i].id = last.tx.id /\ h[i].timestamp = last.tx.timestamp

\* a velocity call that stored its transaction and dropped an older event
C10_Witness ==
    /\ last.op = "velocity"
    /\ \E i \in 1..Len(last.before) :
          last.before[i].timestamp <= last.clock - time_window * 60
    /\ \E i \in 1..Len(transaction_history[last.tx.user_id]) :
          transaction_history[last.tx.user_id][i].id = last.tx.id

\* C11: with window 60 and max_transactions 10, once the user has at least 10
\* prior transactions of 100 inside the window, the next transaction of 100
\* gets a velocity contribution of at least 0.95 (and so reaches the rule's
\* threshold of 0.8).
C11_BurstScoresHigh ==
    (/\ last.op = "velocity"
     /\ last.tx.amount = 100
     /\ Len(last.before) >= max_transactions
     /\ \A i \in 1..Len(last.before) :
           /\ last.before[i].amount = 100
           /\ InTrailingWindow(last.before[i], last.tx.timestamp))
        => last.score >= 9500

\* the normalized amount of a transaction, in thousandths: amount times the
\* currency multiplier, 1.0 for a currency that is not listed
NormalizedAmount(tx) ==
    tx.amount * (CASE tx.currency = "EUR" -> 1100
                   [] tx.currency = "GBP" -> 1300
                   [] tx.currency = "JPY" -> 7
                   [] OTHER -> 1000)

\* C12: the amount score is non-decreasing in the normalized amount, linear
\* from 0 to 0.5 below the suspicious threshold, exactly 0.5 at it, linear from
\* 0.5 to 1.0 up to the high-risk threshold, and exactly 1.0 at and above it.
\* (Linear up to the rounding of one score unit.)
C12_AmountRamp ==
    last.op = "amount" =>
        LET n == NormalizedAmount(last.tx)
            lo == suspicious_threshold
            hi == high_risk_threshold
            unit == SCALE \div 1000
        IN /\ last.ok
           /\ n >= hi * 1000 => last.score = SCALE
           /\ n = lo * 1000 => 2 * last.score = SCALE
           /\ n < lo * 1000 =>
                 /\ 2 * lo * last.score <= n * unit
                 /\ n * unit < 2 * lo * (last.score + 1)
           /\ (lo * 1000 <= n /\ n < hi * 1000) =>
                 /\ 2 * (hi - lo) * last.score
                       <= (hi - lo) * SCALE + (n - lo * 1000) * unit
                 /\ (hi - lo) * SCALE + (n - lo * 1000) * unit
                       < 2 * (hi - lo) * (last.score + 1)
           /\ \A i \in 1..Len(last.prev) :
                 NormalizedAmount(last.prev[i].tx) <= n
                     => last.prev[i].score <= last.score

\* 1000 USD scored 0.5, then 15000 USD scored 1.0
C12_Witness ==
    /\ last.op = "amount"
    /\ last.prev # << >>
    /\ last.prev[1].tx.amount = 1000 /\ last.prev[1].tx.currency = "USD"
    /\ last.prev[1].score * 2 = SCALE
    /\ last.tx.amount = 15000 /\ last.tx.currency = "USD"
    /\ last.score = SCALE

\* C13: a user's first location-bearing transaction scores 0 in the location
\* signal and its location is then recorded in the user's history; a later
\* transaction of the user inside the window, at least max_distance_km away
\* from every retained location (New York, then London), scores exactly 1.0.
C13_ImpossibleTravel ==
    (last.op = "location" /\ last.tx.location # NONE) =>
        LET locs == user_locations[last.tx.user_id].locs
        IN /\ last.ok
           /\ locs # << >> /\ locs[Len(locs)].place = last.tx.location
           /\ last.before = << >> => last.score = 0
           /\ (/\ last.before # << >>
               /\ \A i \in 1..Len(last.before) :
                     /\ last.tx.timestamp - last.before[i].timestamp
                           <= time_window_minutes * 60
                     /\ calculate_distance(last.tx.location, last.before[i].place)
                           >= max_distance_km)
                 => last.score = SCALE

\* the users that sent a transaction from the device before the call last made
DeviceUsedBy(device_id) ==
    {u \in Users : device_id \in last.devices[u]}

\* C14: when a device id first used by one user is then used by another user,
\* the device signal's score for the second user's call exceeds 0.4, whatever
\* time has elapsed and with user agent and address identical to the first
\* call's.
C14_DeviceSharingScore ==
    (/\ last.op = "device" /\ last.ok
     /\ last.tx.device_id # NONE
     /\ DeviceUsedBy(last.tx.device_id) # {}
     /\ last.tx.user_id \notin DeviceUsedBy(last.tx.device_id)
     /\ last.fingerprints[last.tx.device_id].user_agent = last.tx.user_agent
     /\ last.fingerprints[last.tx.device_id].ip_address = last.tx.ip_address)
        => last.score > 4000

\* the device registry in which `device_id` belongs to `user_id` alone
DeviceUnshared(devices, device_id, user_id) ==
    [u \in Users |-> IF u = user_id THEN devices[u] \cup {device_id}
                     ELSE devices[u] \ {device_id}]

\* the address profiles in which `ip_address` was used by `user_id` alone
NetworkUnshared(profiles, ip_address, user_id) ==
    [profiles EXCEPT ![ip_address].unique_users = {user_id},
                     ![ip_address].user_count = 1]

\* the call last made is the first by its user on an identifier (device id or
\* address) that another user has already been seen on
SecondUserOnDevice ==
    /\ last.op = "device" /\ last.ok
    /\ last.tx.device_id # NONE
    /\ DeviceUsedBy(last.tx.device_id) # {}
    /\ last.tx.user_id \notin DeviceUsedBy(last.tx.device_id)

SecondUserOnAddress ==
    /\ last.op = "network" /\ last.ok
    /\ last.tx.ip_address # NONE
    /\ last.profiles[last.tx.ip_address].unique_users # {}
    /\ last.tx.user_id \notin last.profiles[last.tx.ip_address].unique_users

\* C15: in the device and the network signal, the call on which a second
\* distinct user is observed on an identifier leaves the identifier with more
\* than one user and scores strictly more than the same call scores from the
\* state that differs only in the identifier being unshared.
C15_SharingRaisesScore ==
    /\ SecondUserOnDevice =>
         /\ Cardinality(get_device_users(user_devices, last.tx.device_id)) > 1
         /\ last.score >
               DeviceAnalyze(last.tx, last.clock, last.same_instant,
                             last.fingerprints,
                             DeviceUnshared(last.devices, last.tx.device_id,
                                            last.tx.user_id)).score
    /\ SecondUserOnAddress =>
         /\ Cardinality(ip_profiles[last.tx.ip_address].unique_users) > 1
         /\ last.score >
               NetworkAnalyze(last.tx, last.clock, last.same_instant,
                              NetworkUnshared(last.profiles, last.tx.ip_address,
                                              last.tx.user_id),
                              last.ips, suspicious_ips, trusted_ips).score

\* C16: every score that a signal's analyze returns lies in [0, 1], in every
\* reachable state of the signal's store and for non-negative amounts: the
\* merchant score is not below 0 despite the trusted-merchant discount, and
\* the device, network and time sums are not above 1.
C16_SignalScoresInUnitInterval ==
    (last.op = "score" /\ last.ok) => (0 <= last.score /\ last.score <= SCALE)

\* a trusted merchant with five earlier transactions, known to the user: the
\* discount outweighs every other term and the returned score is 0
C16_Witness ==
    /\ last.op = "score" /\ last.ok /\ last.name = "merchant"
    /\ last.tx.merchant_id \in FixtureMerchantConfig.trusted_merchants
    /\ merchant_profiles[last.tx.merchant_id].transaction_count > 5
    /\ last.tx.merchant_category = NONE
    /\ last.score = 0

\* the transactions of `user_id` analyzed so far whose timestamps fall in the
\* last `minutes` minutes before `now`
AnalyzedInWindow(user_id, minutes, now) ==
    SelectSeq(last.analyzed,
              LAMBDA tx : /\ tx.user_id = user_id
                          /\ tx.timestamp > now - minutes * 60)

\* C17: get_velocity_stats(user, W) returns the number and the total amount
\* of all of the user's analyzed transactions whose timestamps fall in the
\* last W minutes, for any W, also one larger than the velocity signal's
\* configured window.
C17_VelocityStats ==
    last.op = "stats" =>
        LET truth == AnalyzedInWindow(last.user_id, last.minutes,
                                      last.clock)
        IN /\ last.stats.count = Len(truth)
           /\ last.stats.total_amount = SumAmount(truth)

\* the rules enabled at the call last made are exactly velocity, amount and
\* location, at their default weights and thresholds
DefaultThreeRules ==
    /\ Len(last.rules) = Len(DefaultRules)
    /\ \A i \in 1..Len(last.rules) :
          /\ last.rules[i].name = DefaultRules[i][1]
          /\ last.rules[i].enabled
                <=> last.rules[i].name \in {"velocity", "amount", "location"}
          /\ last.rules[i].enabled =>
                /\ last.rules[i].is_number
                /\ last.rules[i].weight = DefaultRules[i][2]
                /\ last.rules[i].threshold = DefaultRules[i][3]

\* C18: with the rules velocity, amount and location enabled at their default
\* weights and thresholds, the first transaction of a user, carrying no
\* location and with a normalized amount at or above the high-risk threshold,
\* gets a risk_score above 0.5 and has 'amount' among its triggered rules.
C18_HighAmountFirstTransaction ==
    (/\ Analyzed /\ DefaultThreeRules
     /\ last.tx.id = 1
     /\ last.tx.location = NONE
     /\ NormalizedAmount(last.tx) >= high_risk_threshold * 1000)
        => /\ ~last.raised
           /\ ~RatioLeq(last.result.risk_score, Ratio(SCALE, 2))
           /\ InSeq("amount", last.result.triggered_rules)

\* C19: the behavioral signal scores an unusually high spending amount above
\* 0.3: a transaction of 10000 by a user whose earlier transactions, if any,
\* were all of 100, the user's first transaction included.
C19_HighSpendingScored ==
    (/\ last.op = "score" /\ last.name = "behavioral" /\ last.ok
     /\ last.tx.amount = 10000
     /\ LET profile == user_profiles[last.tx.user_id]
        IN profile.total_amount = 10000 + 100 * (profile.total_transactions - 1))
        => last.score > 3000

\* C20: for a merchant that is not on the trusted list, a transaction whose
\* merchant category is in the high-risk category list gets a merchant score
\* above 0.5, in every state of the merchant's profile and of the user's
\* merchant history, whatever the category's entry in the risk table is.
C20_HighRiskCategoryScored ==
    (/\ last.op = "score" /\ last.name = "merchant" /\ last.ok
     /\ last.tx.merchant_id # NONE
     /\ last.tx.merchant_id \notin FixtureMerchantConfig.trusted_merchants
     /\ last.tx.merchant_category \in FixtureMerchantConfig.high_risk_categories)
        => last.score > 5000

\* a high-risk category with no risk of its own in the table, at a merchant
\* the user knows and that has five earlier transactions: the score is the
\* category's 0.6 plus 0.1 for the merchant's few users
C20_Witness ==
    /\ last.op = "score" /\ last.name = "merchant" /\ last.ok
    /\ last.tx.merchant_id \notin Opt(FixtureMerchantConfig.trusted_merchants)
    /\ last.tx.merchant_category = "adult"
    /\ FixtureMerchantConfig.category_risk_scores["adult"] = 0
    /\ merchant_profiles[last.tx.merchant_id].transaction_count > 5
    /\ last.score = 7000

----------------------------------------------------------------------------
(* Properties of the rule registry and of the update methods *)

\* the step is a call of an update method of the detector
UpdateStep == muts' = muts + 1

\* the rule `r`, among the rules `rs` in force at the analyze call that made
\* `l`, triggered in that call
TriggeredIn(l, r) == InSeq(r.name, l.result.triggered_rules)

\* C21: update_threshold(name, t) on a registered rule sets that rule's
\* threshold to t and leaves its weight and enabled flag, every other rule
\* and the global threshold unchanged; no other method changes a threshold,
\* and every analyze call decides each rule's triggering against the
\* threshold then in the registry; update_threshold, enable_rule and
\* disable_rule on an unknown name leave the registry unchanged.
C21_UpdateThreshold ==
    [][/\ (UpdateStep /\ last'.op = "update_threshold") =>
             /\ config' = config
             /\ Len(rules') = Len(rules)
             /\ \A i \in 1..Len(rules) :
                   rules'[i] = IF rules[i].name = last'.name
                               THEN [rules[i] EXCEPT !.threshold = last'.threshold]
                               ELSE rules[i]
       /\ (/\ UpdateStep
           /\ last'.op \in {"update_threshold", "enable_rule", "disable_rule"}
           /\ \A i \in 1..Len(rules) : rules[i].name # last'.name)
             => (rules' = rules /\ config' = config)
       /\ ~(UpdateStep /\ last'.op = "update_threshold") =>
             /\ Len(rules') = Len(rules)
             /\ \A i \in 1..Len(rules) : rules'[i].threshold = rules[i].threshold
       /\ calls' = calls + 1 =>
             /\ ~last'.raised
             /\ \A i \in 1..Len(rules) :
                   TriggeredIn(last', rules[i])
                      <=> /\ rules[i].enabled
                          /\ rules[i].name \in AlgorithmNames
                          /\ last'.results[rules[i].name].ok
                          /\ last'.results[rules[i].name].score
                                >= rules[i].threshold
      ]_vars

\* an analyze call after update_threshold('velocity', 0): velocity triggers
\* on a score below its default threshold
C21_Witness ==
    /\ Analyzed /\ ~last.raised /\ muts > 0
    /\ \E i \in 1..Len(last.rules) :
          /\ last.rules[i].name = "velocity"
          /\ last.rules[i].threshold = 0
          /\ last.results["velocity"].score < 8000
          /\ InSeq("velocity", last.result.triggered_rules)

\* the rule has a signal registered under its name in self.algorithms
HasSignal(rule) == rule.name \in AlgorithmNames

\* the default rule _initialize_rules creates in place i for configuration cfg
DefaultRuleOf(cfg, i) ==
    DetectionRule(DefaultRules[i][1], DefaultRules[i][2], TRUE,
                  IF DefaultRules[i][1] \in DOMAIN cfg.thresholds
                  THEN cfg.thresholds[DefaultRules[i][1]]
                  ELSE DefaultRules[i][3],
                  InSeq(DefaultRules[i][1], cfg.rules))

\* C22: a detector constructed with custom rules holds the nine default
\* rules with their default weight, threshold and enabled flag, followed by
\* the custom rules in order; and an analyze call made before any update
\* method gives the result the rules that have a signal give alone, so that
\* a custom rule without a signal adds neither score nor weight and is not
\* in triggered_rules.
C22_CustomRulesAppended ==
    muts = 0 =>
        /\ Len(rules) = Len(DefaultRules) + Len(config.custom_rules)
        /\ \A i \in 1..Len(DefaultRules) :
              i <= Len(rules) => rules[i] = DefaultRuleOf(config, i)
        /\ \A j \in 1..Len(config.custom_rules) :
              Len(DefaultRules) + j <= Len(rules)
                 => rules[Len(DefaultRules) + j] = config.custom_rules[j]
        /\ (Analyzed /\ ~last.raised) =>
              /\ \A i \in 1..Len(last.rules) :
                    TriggeredIn(last, last.rules[i]) => HasSignal(last.rules[i])
              /\ last.result =
                    fraud_result(last.tx,
                                 process_rules(EmptyAcc,
                                               SelectSeq(last.rules, HasSignal),
                                               last.results),
                                 config)

\* the state store of the signal registered under `name`
StoreOf(name) ==
    CASE name = "velocity" -> velocityVars
      [] name = "location" -> locationVars
      [] name = "device" -> deviceVars
      [] name = "time" -> timeVars
      [] name = "merchant" -> merchantVars
      [] name = "behavioral" -> behavioralVars
      [] name = "network" -> networkVars
      [] name = "ml" -> mlVars
      [] OTHER -> << >>

IsEnabled(rule) == rule.enabled

\* no rule registered under `name` is enabled
Disabled(rs, name) == \A i \in 1..Len(rs) : rs[i].name = name => ~rs[i].enabled

\* C23: an analyze call leaves the store of every signal whose rule is
\* disabled as it was, keeps that rule out of triggered_rules, and returns
\* the result the enabled rules give alone; disable_rule and enable_rule
\* change nothing but the enabled flag of the named rule, so a rule that is
\* disabled and enabled again has the weight and threshold it had.
C23_DisabledRule ==
    [][/\ calls' = calls + 1 =>
            /\ \A name \in AlgorithmNames :
                  Disabled(rules, name) =>
                     /\ StoreOf(name)' = StoreOf(name)
                     /\ ~InSeq(name, last'.result.triggered_rules)
            /\ last'.result =
                  fraud_result(last'.tx,
                               process_rules(EmptyAcc,
                                             SelectSeq(rules, IsEnabled),
                                             last'.results),
                               config)
       /\ (UpdateStep /\ last'.op \in {"enable_rule", "disable_rule"}) =>
            /\ config' = config
            /\ Len(rules') = Len(rules)
            /\ \A i \in 1..Len(rules) :
                  rules'[i] = IF rules[i].name = last'.name
                              THEN [rules[i] EXCEPT
                                       !.enabled = (last'.op = "enable_rule")]
                              ELSE rules[i]
      ]_vars

\* a rule the configuration enabled was switched off by disable_rule, and the
\* analyze call that followed left its signal's store empty
C23_Witness ==
    /\ Analyzed /\ ~last.raised /\ muts > 0
    /\ InSeq("velocity", config.rules)
    /\ Disabled(last.rules, "velocity")
    /\ ~InSeq("velocity", last.result.triggered_rules)
    /\ transaction_history[last.tx.user_id] = << >>

----------------------------------------------------------------------------
(* Properties of the signals' state stores *)

\* C24: a call of a signal that fails leaves every store as it was before
\* the call.
C24_FailedCallLeavesStore ==
    [][(calls' = calls + 1 /\ ~last'.ok) => storeVars' = storeVars]_vars

----------------------------------------------------------------------------
(* Properties of analyze calls in flight together *)

\* every analyze coroutine created so far has completed
AllTasksDone ==
    running = IDLE /\ \A t \in 1..Len(tasks) : tasks[t].pc = "done"

\* the tasks whose network call returned a score
ScoredTasks == {t \in 1..Len(tasks) : tasks[t].ok}

----------------------------------------------------------------------------
(* Properties of the time signal's store *)

\* the last n elements of a sequence, all of them when it has fewer
LastOf(seq, n) ==
    IF Len(seq) > n THEN SubSeq(seq, Len(seq) - n + 1, Len(seq)) ELSE seq

\* C26: a user's stored time patterns are the most recent hundred (at most)
\* of the patterns that arrived, in arrival order; and a call scores the
\* pattern against the list as it was before the call and then stores it
\* as the newest entry.
C26_TimePatterns ==
    /\ \A u \in Users :
          /\ Len(user_time_patterns[u]) <= 100
          /\ user_time_patterns[u] = LastOf(last.arrivals[u], 100)
    /\ last.op = "time" =>
          /\ last.ok
          /\ last.score = TimeAnalyze(last.tx, [u \in Users |-> last.before]).score
          /\ user_time_patterns[last.tx.user_id]
                = LastOf(Append(last.before, analyze_time_pattern(last.tx)), 100)

\* a call on a user who had a hundred patterns: the oldest one is gone and
\* the list still holds a hundred
C26_Witness ==
    /\ last.op = "time"
    /\ Len(last.before) = 100
    /\ Len(user_time_patterns[last.tx.user_id]) = 100
    /\ user_time_patterns[last.tx.user_id][1] = last.before[2]
    /\ user_time_patterns[last.tx.user_id][100] = analyze_time_pattern(last.tx)

----------------------------------------------------------------------------
(* Properties of the device and network signals' stores *)

\* the users whose device set holds the device
HoldersOf(devices, device_id) == {u \in Users : device_id \in devices[u]}

DeviceIdOf(transaction) ==
    IF transaction.device_id # NONE THEN transaction.device_id
    ELSE generate_device_id(transaction)

\* C28: a call of the device, network or merchant signal on a device, an
\* address or a merchant never seen before returns a score, also when the
\* clock read by the velocity computation shows the instant of first sight.
C28_VelocityAtFirstSight ==
    /\ (/\ last.op = "device"
        /\ ~(last.tx.device_id = NONE /\ last.tx.user_agent = NONE
             /\ last.tx.ip_address = NONE))
          => (~last.fingerprints[DeviceIdOf(last.tx)].present => last.ok)
    /\ (last.op = "network" /\ last.tx.ip_address # NONE)
          => (~last.profiles[last.tx.ip_address].present => last.ok)
    /\ (last.op = "merchant" /\ last.tx.merchant_id # NONE)
          => (~last.profiles[last.tx.merchant_id].present => last.ok)

----------------------------------------------------------------------------
(* Properties of the aggregate *)

\* at the last analyze call, the score and the weight of rule r were added
\* to the weighted aggregate
InAggregate(r) == Contributed(r) /\ r.is_number

\* C29: every rule named in triggered_rules is one whose score and weight
\* are in the weighted aggregate of the same result.
C29_TriggeredRulesContribute ==
    Analyzed =>
        \A i \in 1..Len(last.rules) :
            InSeq(last.rules[i].name, last.result.triggered_rules)
                => InAggregate(last.rules[i])

----------------------------------------------------------------------------
(* Properties of the network signal's store *)

\* the step is a call of the network signal on the address that returned a
\* score
CompletedOn(a) ==
    /\ calls' = calls + 1
    /\ last'.op = "network"
    /\ last'.tx.ip_address = a
    /\ last'.ok

\* C30: every IP profile has user_count equal to the size of unique_users;
\* its transaction_count starts at 0 and grows by one with each call on the
\* address that returns a score and with nothing else; and the address is in
\* user_ips[u] exactly for the users u in the profile's unique_users.
C30_IpProfileCounters ==
    [][\A a \in IpAddresses :
          /\ ip_profiles'[a].user_count = Cardinality(ip_profiles'[a].unique_users)
          /\ ip_profiles'[a].transaction_count =
                ip_profiles[a].transaction_count
                + (IF CompletedOn(a) THEN 1 ELSE 0)
          /\ ~ip_profiles[a].present => ip_profiles[a].transaction_count = 0
          /\ \A u \in Users :
                a \in user_ips'[u] <=> u \in ip_profiles'[a].unique_users
      ]_vars

\* two users called from the same address: the profile counts two calls and
\* two users, and both users are indexed under the address
C30_Witness ==
    /\ last.op = "network" /\ last.ok
    /\ ip_profiles["10.0.0.1"].transaction_count = 2
    /\ ip_profiles["10.0.0.1"].user_count = 2
    /\ ip_profiles["10.0.0.1"].unique_users = Users
    /\ \A u \in Users : "10.0.0.1" \in user_ips[u]

====
